---- MODULE Spec2Model ----
(***************************************************************************)
(* State-machine model of the VWAP mean-reversion backtester:              *)
(* run_backtest (backtest.py) driving PositionManager (positions.py), the  *)
(* signal engine (signal_engine.py), the risk functions (risk_manager.py), *)
(* the fill simulation (execution_engine.py) and the indicators            *)
(* (indicators.py).                                                        *)
(*                                                                         *)
(* Python floats are modelled as exact rationals <<n, d>> (d > 0, lowest   *)
(* terms).  A timestamp is the number of minutes since midnight of day 0,  *)
(* so its calendar date is ts \div 1440 and its time of day ts % 1440.     *)
(***************************************************************************)
EXTENDS Integers, Sequences, FiniteSets, TLC

VARIABLES
    config,            \* the Config object handed to run_backtest / PositionManager
    pc,                \* position of run_backtest: symbol_loop, bar_loop, done, aborted
    sym_idx,           \* index into config.symbols of the symbol being processed
    bars,              \* bars[:i+1] of the current symbol (the bars iterated so far)
    state,             \* the StrategyState of the current symbol
    current_day,       \* run_backtest's current_day (NoDay = None)
    positions,         \* every Position object ever created, by position_counter value
    open_positions,    \* PositionManager.open_positions: symbol -> list of positions
    closed_positions,  \* PositionManager.closed_positions
    position_counter,  \* PositionManager.position_counter
    current_capital,   \* PositionManager.current_capital
    daily_pnl,         \* PositionManager.daily_pnl
    current_date,      \* PositionManager.current_date (NoDay = None)
    all_fills,         \* run_backtest's all_fills
    equity_curve,      \* run_backtest's equity_curve
    n_steps,           \* bars iterated (calls made) since the start of the run
    last_close,        \* history: symbol left with an open position -> its last close
    call               \* the last call made and what it returned

vars == <<config, pc, sym_idx, bars, state, current_day, positions, open_positions,
          closed_positions, position_counter, current_capital, daily_pnl,
          current_date, all_fills, equity_curve, n_steps, last_close, call>>

pm_vars == <<positions, open_positions, closed_positions, position_counter,
             current_capital, daily_pnl, current_date>>

run_vars == <<pc, sym_idx, bars, state, current_day, all_fills, equity_curve, n_steps>>

(***************************************************************************)
(* Bounds of the model.                                                    *)
(***************************************************************************)
\* bars iterated in one run, over all symbols
MaxBars == 4
\* calls made in one run of the PositionManager specification
MaxCalls == 3
\* values in an equity curve handed to calculate_max_drawdown
MaxCurve == 4
\* calls of update_strategy_state, or of update_vwap, in a row
MaxUpdates == 5

(***************************************************************************)
(* Exact rational arithmetic.                                              *)
(***************************************************************************)
Abs(x) == IF x < 0 THEN -x ELSE x

Max(a, b) == IF a >= b THEN a ELSE b

Min(a, b) == IF a <= b THEN a ELSE b

RECURSIVE GCD(_, _)
GCD(a, b) == IF b = 0 THEN a ELSE GCD(b, a % b)

R(n, d) ==
    LET g == GCD(Abs(n), Abs(d))
        s == IF d < 0 THEN -1 ELSE 1
    IN  <<(s * n) \div g, (s * d) \div g>>

RI(n) == <<n, 1>>

RAdd(a, b) == R(a[1] * b[2] + b[1] * a[2], a[2] * b[2])

RSub(a, b) == R(a[1] * b[2] - b[1] * a[2], a[2] * b[2])

RMul(a, b) == R(a[1] * b[1], a[2] * b[2])

RDiv(a, b) == R(a[1] * b[2], a[2] * b[1])

RNeg(a) == <<-a[1], a[2]>>

RAbs(a) == <<Abs(a[1]), a[2]>>

RLt(a, b) == a[1] * b[2] < b[1] * a[2]

RLe(a, b) == a[1] * b[2] <= b[1] * a[2]

RMax(a, b) == IF RLe(b, a) THEN a ELSE b

\* Python int(x): truncation toward zero
RInt(a) == IF a[1] >= 0 THEN a[1] \div a[2] ELSE -((-a[1]) \div a[2])

RECURSIVE RSum(_)
RSum(s) == IF s = <<>> THEN RI(0) ELSE RAdd(s[1], RSum(Tail(s)))

\* None for an Optional[float]
RNone == <<0, 0>>

\* None for an Optional date / Optional datetime
NoDay == -1

\* None for an Optional Position
NoPosition == -1

(***************************************************************************)
(* Time.                                                                   *)
(***************************************************************************)
DateOf(ts) == ts \div 1440

TimeOfDay(ts) == ts % 1440

(***************************************************************************)
(* indicators.py                                                           *)
(***************************************************************************)
\* Bar.typical_price
typical_price(bar) == R(bar.high + bar.low + bar.close, 3)

\* the loop of calculate_vwap: <<cum_pv, cum_vol>> over a list of bars
RECURSIVE vwap_accumulate(_)
vwap_accumulate(bs) ==
    IF bs = <<>> THEN <<RI(0), 0>>
    ELSE LET prev == vwap_accumulate(SubSeq(bs, 1, Len(bs) - 1))
             bar == bs[Len(bs)]
         IN  IF bar.volume > 0
             THEN <<RAdd(prev[1], RMul(typical_price(bar), RI(bar.volume))),
                    prev[2] + bar.volume>>
             ELSE prev

calculate_vwap(bs) ==
    LET acc == vwap_accumulate(bs)
    IN  IF acc[2] > 0 THEN RDiv(acc[1], RI(acc[2])) ELSE RI(bs[Len(bs)].close)

\* update_vwap(cum_pv, cum_vol, bar), use_typical_price taking its default as
\* in calculate_vwap: <<updated cum_pv, updated cum_vol, vwap>>
update_vwap(cum_pv, cum_vol, bar) ==
    LET price == typical_price(bar)
        pv == IF bar.volume > 0 THEN RAdd(cum_pv, RMul(price, RI(bar.volume))) ELSE cum_pv
        vol == IF bar.volume > 0 THEN cum_vol + bar.volume ELSE cum_vol
    IN  <<pv, vol, IF vol > 0 THEN RDiv(pv, RI(vol)) ELSE price>>

RECURSIVE SumInt(_)
SumInt(s) == IF s = <<>> THEN 0 ELSE s[1] + SumInt(Tail(s))

true_range(bs, i) ==
    Max(Max(bs[i].high - bs[i].low, Abs(bs[i].high - bs[i - 1].close)),
        Abs(bs[i].low - bs[i - 1].close))

calculate_atr(bs, window) ==
    IF Len(bs) < 2 THEN RI(0)
    ELSE LET true_ranges == [k \in 1..(Len(bs) - 1) |-> true_range(bs, k + 1)]
             n == Len(true_ranges)
         IN  IF n < window
             THEN R(SumInt(true_ranges), n)
             ELSE R(SumInt(SubSeq(true_ranges, n - window + 1, n)), window)

(***************************************************************************)
(* A z-score is (deviation - rolling_mean) / rolling_std, and rolling_std  *)
(* is a square root.  The state keeps the square of rolling_std_deviation  *)
(* (rolling_std_sq) and a z-score is the pair [x, s2] standing for         *)
(* x / sqrt(s2); ZCompare gives the sign of z - t for a rational t.        *)
(***************************************************************************)
Sgn(n) == IF n > 0 THEN 1 ELSE IF n < 0 THEN -1 ELSE 0

ZOf(r) == [x |-> r, s2 |-> RI(1)]

ZCompare(z, t) ==
    LET sx == Sgn(z.x[1])
        st == Sgn(t[1])
    IN  IF sx # st \/ sx = 0 THEN Sgn(sx - st)
        ELSE LET lhs == RMul(z.x, z.x)
                 rhs == RMul(RMul(t, t), z.s2)
                 c == IF RLt(rhs, lhs) THEN 1 ELSE IF RLt(lhs, rhs) THEN -1 ELSE 0
             IN  IF sx > 0 THEN c ELSE -c

ZGt(z, t) == ZCompare(z, t) = 1

ZLt(z, t) == ZCompare(z, t) = -1

ZGe(z, t) == ZCompare(z, t) >= 0

ZLe(z, t) == ZCompare(z, t) <= 0

calculate_z_score(price, vwap, rolling_mean, rolling_std_sq) ==
    LET deviation == RSub(price, vwap)
    IN  IF rolling_std_sq[1] = 0 THEN ZOf(RI(0))
        ELSE [x |-> RSub(deviation, rolling_mean), s2 |-> rolling_std_sq]

calculate_pct_deviation(price, vwap) ==
    IF vwap[1] = 0 THEN RI(0) ELSE RDiv(RSub(price, vwap), vwap)

(***************************************************************************)
(* signal_engine.py                                                        *)
(***************************************************************************)
init_strategy_state(symbol, cfg) ==
    [symbol |-> symbol,
     last_exit_bar_idx |-> -1,
     bar_idx |-> 0,
     session_start |-> NoDay,
     session_end |-> NoDay,
     current_vwap |-> RI(0),
     deviation_history |-> <<>>,
     rolling_mean_deviation |-> RI(0),
     rolling_std_sq |-> RI(1),
     volume_history |-> <<>>]

\* list.append(x) followed by pop() of the last element when the list is
\* longer than the window
append_and_evict_newest(history, x, window) ==
    LET appended == Append(history, x)
    IN  IF Len(appended) > window THEN SubSeq(appended, 1, Len(appended) - 1) ELSE appended

\* list.append(x) followed by pop(0) when the list is longer than the window
append_and_evict(history, x, window) ==
    LET appended == Append(history, x)
    IN  IF Len(appended) > window THEN Tail(appended) ELSE appended

\* np.mean
np_mean(s) == RDiv(RSum(s), RI(Len(s)))

\* np.std(s) squared: the population variance
np_std_sq(s) ==
    LET m == np_mean(s)
    IN  RDiv(RSum([k \in 1..Len(s) |-> RMul(RSub(s[k], m), RSub(s[k], m))]), RI(Len(s)))

\* rolling_std_deviation < 0.0001, on the square
std_below_floor(sq) == sq[1] = 0 \/ (sq[2] - 1) \div sq[1] >= 100000000

\* update_strategy_state without the "avoid zero std" floor
update_strategy_state_no_floor(st, bar, vwap, cfg) ==
    LET deviation == RSub(RI(bar.close), vwap)
        deviation_history == append_and_evict(st.deviation_history, deviation,
                                              cfg.rolling_window)
    IN  [st EXCEPT
            !.current_vwap = vwap,
            !.deviation_history = deviation_history,
            !.rolling_mean_deviation =
                IF Len(deviation_history) >= 2 THEN np_mean(deviation_history) ELSE @,
            !.rolling_std_sq =
                IF Len(deviation_history) >= 2 THEN np_std_sq(deviation_history) ELSE @,
            !.volume_history = append_and_evict(st.volume_history, bar.volume,
                                                cfg.rolling_window)]

update_strategy_state(st, bar, vwap, cfg) ==
    LET deviation == RSub(RI(bar.close), vwap)
        deviation_history == append_and_evict(st.deviation_history, deviation,
                                              cfg.rolling_window)
        sq == np_std_sq(deviation_history)
    IN  [st EXCEPT
            !.current_vwap = vwap,
            !.deviation_history = deviation_history,
            !.rolling_mean_deviation =
                IF Len(deviation_history) >= 2 THEN np_mean(deviation_history) ELSE @,
            !.rolling_std_sq =
                IF Len(deviation_history) >= 2
                THEN (IF std_below_floor(sq) THEN <<1, 100000000>> ELSE sq)
                ELSE @,
            !.volume_history = append_and_evict(st.volume_history, bar.volume,
                                                cfg.rolling_window)]

\* the entry filters without the minimum VWAP history filter
_check_entry_filters_no_warmup(bar, st, cfg) ==
    LET n == Len(st.volume_history)
        recent == SubSeq(st.volume_history, n - cfg.volume_avg_window + 1, n)
        min_volume == RMul(R(SumInt(recent), cfg.volume_avg_window),
                           RDiv(cfg.min_volume_pct_of_avg, RI(100)))
    IN  IF n >= cfg.volume_avg_window /\ RLt(RI(bar.volume), min_volume) THEN FALSE
        ELSE IF st.session_start # NoDay
                /\ bar.timestamp - st.session_start < cfg.skip_open_minutes THEN FALSE
        ELSE TRUE

_check_entry_filters(bar, st, cfg) ==
    LET n == Len(st.volume_history)
        recent == SubSeq(st.volume_history, n - cfg.volume_avg_window + 1, n)
        min_volume == RMul(R(SumInt(recent), cfg.volume_avg_window),
                           RDiv(cfg.min_volume_pct_of_avg, RI(100)))
    IN  IF n >= cfg.volume_avg_window /\ RLt(RI(bar.volume), min_volume) THEN FALSE
        ELSE IF st.session_start # NoDay
                /\ bar.timestamp - st.session_start < cfg.skip_open_minutes THEN FALSE
        ELSE IF st.bar_idx < cfg.min_vwap_bars THEN FALSE
        ELSE TRUE

\* position is position_manager.get_position(state.symbol)
generate_entry_signal(bar, vwap, z_score, pct_deviation, cfg, st, position) ==
    IF ~_check_entry_filters(bar, st, cfg) THEN "None"
    ELSE IF position # NoPosition THEN "None"
    ELSE IF st.bar_idx - st.last_exit_bar_idx < cfg.cooldown_bars THEN "None"
    ELSE IF cfg.signal_type = "zscore"
         THEN (IF ZGt(z_score, cfg.entry_z) THEN "SHORT"
               ELSE IF ZLt(z_score, RNeg(cfg.entry_z)) THEN "LONG"
               ELSE "None")
         ELSE (IF RLt(cfg.entry_pct, pct_deviation) THEN "SHORT"
               ELSE IF RLt(pct_deviation, RNeg(cfg.entry_pct)) THEN "LONG"
               ELSE "None")

\* Position.is_stop_loss_hit
is_stop_loss_hit(pos, bar) ==
    IF pos.direction = "LONG"
    THEN RLe(RI(bar.low), pos.stop_loss)
    ELSE RLe(pos.stop_loss, RI(bar.high))

check_exit_signal(pos, bar, z_score, pct_deviation, cfg, st) ==
    IF is_stop_loss_hit(pos, bar) THEN <<TRUE, "stop_loss">>
    ELSE IF st.session_end # NoDay
            /\ st.session_end - bar.timestamp <= cfg.close_before_end_minutes
         THEN <<TRUE, "time_exit">>
    ELSE IF bar.timestamp - pos.entry_time >= cfg.max_holding_minutes
         THEN <<TRUE, "max_hold">>
    ELSE IF cfg.signal_type = "zscore"
         THEN (IF pos.direction = "LONG" /\ ZGe(z_score, RNeg(cfg.exit_z))
               THEN <<TRUE, "z_score_exit">>
               ELSE IF pos.direction = "SHORT" /\ ZLe(z_score, cfg.exit_z)
               THEN <<TRUE, "z_score_exit">>
               ELSE <<FALSE, "">>)
         ELSE (IF pos.direction = "LONG" /\ RLe(RNeg(cfg.exit_pct), pct_deviation)
               THEN <<TRUE, "pct_exit">>
               ELSE IF pos.direction = "SHORT" /\ RLe(pct_deviation, cfg.exit_pct)
               THEN <<TRUE, "pct_exit">>
               ELSE <<FALSE, "">>)

check_exit_condition(pos, bar, vwap, rolling_mean, rolling_std_sq, cfg) ==
    check_exit_signal(pos, bar,
                      calculate_z_score(RI(bar.close), vwap, rolling_mean, rolling_std_sq),
                      calculate_pct_deviation(RI(bar.close), vwap),
                      cfg,
                      init_strategy_state(pos.symbol, cfg))

(***************************************************************************)
(* risk_manager.py                                                         *)
(***************************************************************************)
\* [ok |-> FALSE] stands for the ValueError the function raises
calculate_stop_loss(entry_price, direction, cfg, atr) ==
    IF cfg.stop_type = "atr"
    THEN IF atr = RNone THEN [ok |-> FALSE, value |-> RNone]
         ELSE LET stop_distance == RMul(atr, cfg.stop_atr_mult)
              IN  [ok |-> TRUE,
                   value |-> IF direction = "LONG"
                             THEN RSub(entry_price, stop_distance)
                             ELSE RAdd(entry_price, stop_distance)]
    ELSE IF cfg.stop_type = "fixed"
    THEN LET stop_pct == RDiv(cfg.fixed_stop_pct, RI(100))
         IN  [ok |-> TRUE,
              value |-> IF direction = "LONG"
                        THEN RMul(entry_price, RSub(RI(1), stop_pct))
                        ELSE RMul(entry_price, RAdd(RI(1), stop_pct))]
    ELSE [ok |-> FALSE, value |-> RNone]

\* calculate_position_size without the cap at 95% of the capital
calculate_position_size_uncapped(entry_price, stop_loss, direction, capital, max_risk_pct) ==
    LET risk_per_share == RAbs(RSub(entry_price, stop_loss))
        max_risk_amount == RMul(capital, RDiv(max_risk_pct, RI(100)))
    IN  IF RLe(risk_per_share, RI(0)) THEN 0
        ELSE Max(0, RInt(RDiv(max_risk_amount, risk_per_share)))

calculate_position_size(entry_price, stop_loss, direction, capital, max_risk_pct) ==
    LET risk_per_share == RAbs(RSub(entry_price, stop_loss))
        max_risk_amount == RMul(capital, RDiv(max_risk_pct, RI(100)))
        position_size == RInt(RDiv(max_risk_amount, risk_per_share))
        max_position_value == RMul(capital, R(95, 100))
        position_value == RMul(RI(position_size), entry_price)
    IN  IF RLe(risk_per_share, RI(0)) THEN 0
        ELSE IF RLt(max_position_value, position_value)
             THEN Max(0, RInt(RDiv(max_position_value, entry_price)))
             ELSE Max(0, position_size)

calculate_risk_reward_ratio(entry_price, stop_loss, target_price, direction) ==
    LET risk == IF direction = "LONG" THEN RSub(entry_price, stop_loss)
                ELSE RSub(stop_loss, entry_price)
        reward == IF direction = "LONG" THEN RSub(target_price, entry_price)
                  ELSE RSub(entry_price, target_price)
    IN  IF RLe(risk, RI(0)) THEN RI(0) ELSE RDiv(reward, risk)

validate_trade_risk(entry_price, stop_loss, target_price, direction, cfg, min_risk_reward) ==
    LET rr_ratio == calculate_risk_reward_ratio(entry_price, stop_loss, target_price,
                                                direction)
        stop_distance_pct ==
            RMul(RAbs(RDiv(RSub(entry_price, stop_loss), entry_price)), RI(100))
    IN  IF direction = "LONG" /\ RLe(entry_price, stop_loss)
        THEN <<FALSE, "stop_loss_invalid_direction">>
        ELSE IF direction = "LONG" /\ RLe(target_price, entry_price)
        THEN <<FALSE, "target_invalid_direction">>
        ELSE IF direction # "LONG" /\ RLe(stop_loss, entry_price)
        THEN <<FALSE, "stop_loss_invalid_direction">>
        ELSE IF direction # "LONG" /\ RLe(entry_price, target_price)
        THEN <<FALSE, "target_invalid_direction">>
        ELSE IF RLt(rr_ratio, min_risk_reward) THEN <<FALSE, "risk_reward_too_low">>
        ELSE IF RLt(stop_distance_pct, R(1, 10)) THEN <<FALSE, "stop_loss_too_tight">>
        ELSE IF RLt(RI(10), stop_distance_pct) THEN <<FALSE, "stop_loss_too_wide">>
        ELSE <<TRUE, "ok">>

check_daily_risk_limit(current_daily_pnl, initial_capital, daily_loss_limit_pct) ==
    LET max_loss_amount == RMul(initial_capital, RDiv(daily_loss_limit_pct, RI(100)))
    IN  IF RLt(current_daily_pnl, RNeg(max_loss_amount))
        THEN <<FALSE, RI(0)>>
        ELSE <<TRUE, RAdd(max_loss_amount, current_daily_pnl)>>

\* np.maximum.accumulate: the running maximum of a list of numbers
np_maximum_accumulate(s) ==
    [i \in 1..Len(s) |-> CHOOSE m \in {s[k] : k \in 1..i} : \A k \in 1..i : s[k] <= m]

\* np.argmin of an array of ratios: the first position (from 0) of the least value
np_argmin(s) ==
    (CHOOSE i \in 1..Len(s) : /\ \A j \in 1..Len(s) : RLe(s[i], s[j])
                              /\ \A j \in 1..(i - 1) : RLt(s[i], s[j])) - 1

\* np.argmax of an array of numbers: the first position (from 0) of the greatest value
np_argmax(s) ==
    (CHOOSE i \in 1..Len(s) : /\ \A j \in 1..Len(s) : s[j] <= s[i]
                              /\ \A j \in 1..(i - 1) : s[j] < s[i]) - 1

\* calculate_max_drawdown looking for the peak in the whole curve
calculate_max_drawdown_peak_anywhere(curve) ==
    IF Len(curve) < 2 THEN [max_dd |-> RI(0), peak_idx |-> 0, trough_idx |-> 0]
    ELSE LET running_max == np_maximum_accumulate(curve)
             drawdown == [i \in 1..Len(curve) |->
                             RMul(R(curve[i] - running_max[i], running_max[i]),
                                  RI(100))]
             max_dd_idx == np_argmin(drawdown)
         IN  [max_dd |-> RAbs(drawdown[max_dd_idx + 1]),
              peak_idx |-> np_argmax(curve),
              trough_idx |-> max_dd_idx]

\* RiskMetrics.calculate_max_drawdown(equity_curve): (max_drawdown_pct, peak_idx,
\* trough_idx), the positions counted from 0; the equity values are positive
calculate_max_drawdown(curve) ==
    IF Len(curve) < 2 THEN [max_dd |-> RI(0), peak_idx |-> 0, trough_idx |-> 0]
    ELSE LET running_max == np_maximum_accumulate(curve)
             drawdown == [i \in 1..Len(curve) |->
                             RMul(R(curve[i] - running_max[i], running_max[i]),
                                  RI(100))]
             max_dd_idx == np_argmin(drawdown)
             max_dd == drawdown[max_dd_idx + 1]
             peak_idx == np_argmax(SubSeq(curve, 1, max_dd_idx + 1))
         IN  [max_dd |-> RAbs(max_dd), peak_idx |-> peak_idx, trough_idx |-> max_dd_idx]

(***************************************************************************)
(* execution_engine.py                                                     *)
(***************************************************************************)
\* simulate_fill_price adding the slippage for a SHORT order as for a LONG one
simulate_fill_price_always_up(order, bar, base_price, cfg) ==
    RMul(base_price, RAdd(RI(1), RDiv(cfg.slippage_bps, RI(10000))))

simulate_fill_price(order, bar, base_price, cfg) ==
    LET bps == RDiv(cfg.slippage_bps, RI(10000))
        participation_pct ==
            IF bar.volume > 0 THEN RMul(R(order.size, bar.volume), RI(100)) ELSE RI(0)
        slippage_pct ==
            IF cfg.slippage_model = "bps" THEN bps
            ELSE IF RLt(cfg.volume_participation_limit_pct, participation_pct)
                 THEN RMul(bps, RAdd(RI(1), RDiv(participation_pct,
                                                  cfg.volume_participation_limit_pct)))
                 ELSE bps
    IN  IF cfg.slippage_model \in {"bps", "volume"}
        THEN IF order.direction = "LONG"
             THEN RMul(base_price, RAdd(RI(1), slippage_pct))
             ELSE RMul(base_price, RSub(RI(1), slippage_pct))
        ELSE base_price

apply_slippage(order, bar, base_price, fill_price, cfg) ==
    RMul(RAbs(RSub(fill_price, base_price)), RI(order.size))

apply_commission(order, fill_price, cfg) == cfg.commission_per_trade

fill_market_order(order, bar, cfg, use_realistic_fills) ==
    LET base_fill_price == IF use_realistic_fills THEN RI(bar.close) ELSE RI(bar.open)
        fill_price == simulate_fill_price(order, bar, base_fill_price, cfg)
    IN  [order |-> order,
         fill_price |-> fill_price,
         fill_time |-> bar.timestamp,
         slippage |-> apply_slippage(order, bar, base_fill_price, fill_price, cfg),
         commission |-> apply_commission(order, fill_price, cfg),
         fill_size |-> order.size]

Order(symbol, direction, size, timestamp) ==
    [symbol |-> symbol, direction |-> direction, order_type |-> "MARKET",
     size |-> size, timestamp |-> timestamp]

(***************************************************************************)
(* positions.py.  A Position object is positions[id], id being the value   *)
(* of position_counter when it was created (the counter is what makes      *)
(* position_id unique); lists of positions are lists of ids.               *)
(***************************************************************************)
\* Position.unrealized_pnl
unrealized_pnl(pos, current_price) ==
    IF pos.direction = "LONG"
    THEN RMul(RSub(current_price, pos.entry_price), RI(pos.size))
    ELSE RMul(RSub(pos.entry_price, current_price), RI(pos.size))

\* Position.close_position: the Position with its exit fields filled
position_close(pos, exit_price, exit_time, exit_reason, commission, slippage) ==
    LET commission2 == RMul(commission, RI(2))
        slippage2 == RMul(slippage, RI(2))
        gross_pnl == IF pos.direction = "LONG"
                     THEN RMul(RSub(exit_price, pos.entry_price), RI(pos.size))
                     ELSE RMul(RSub(pos.entry_price, exit_price), RI(pos.size))
    IN  [pos EXCEPT !.exit_price = exit_price,
                    !.exit_time = exit_time,
                    !.exit_reason = exit_reason,
                    !.commission = commission2,
                    !.slippage = slippage2,
                    !.realized_pnl = RSub(RSub(gross_pnl, commission2), slippage2)]

\* the PositionManager object as one value
PM == [positions |-> positions,
       open_positions |-> open_positions,
       closed_positions |-> closed_positions,
       position_counter |-> position_counter,
       current_capital |-> current_capital,
       daily_pnl |-> daily_pnl,
       current_date |-> current_date]

\* PositionManager.__init__
pm_init(cfg, initial_capital) ==
    [positions |-> <<>>,
     open_positions |-> <<>>,
     closed_positions |-> <<>>,
     position_counter |-> 0,
     current_capital |-> initial_capital,
     daily_pnl |-> RI(0),
     current_date |-> NoDay]

\* open_positions.get(symbol, [])
symbol_positions(pm, symbol) ==
    IF symbol \in DOMAIN pm.open_positions THEN pm.open_positions[symbol] ELSE <<>>

\* PositionManager.get_position
get_position(pm, symbol) ==
    IF symbol_positions(pm, symbol) # <<>> THEN symbol_positions(pm, symbol)[1]
    ELSE NoPosition

\* sum(len(positions) for positions in self.open_positions.values())
RECURSIVE total_open_over(_, _)
total_open_over(pm, syms) ==
    IF syms = {} THEN 0
    ELSE LET s == CHOOSE x \in syms : TRUE
         IN  Len(pm.open_positions[s]) + total_open_over(pm, syms \ {s})

total_open(pm) == total_open_over(pm, DOMAIN pm.open_positions)

reset_daily_tracking(pm, ts) ==
    IF pm.current_date = NoDay \/ DateOf(ts) # DateOf(pm.current_date)
    THEN [pm EXCEPT !.current_date = ts, !.daily_pnl = RI(0)]
    ELSE pm

\* can_open_position with the two position limits compared by > instead of >=
can_open_position_limits_off_by_one(pm, cfg, symbol) ==
    LET loss_limit_amount == RMul(cfg.initial_capital,
                                  RDiv(cfg.daily_loss_limit_pct, RI(100)))
    IN  IF RLt(pm.daily_pnl, RNeg(loss_limit_amount))
        THEN <<FALSE, "daily_loss_limit_reached">>
        ELSE IF total_open(pm) > cfg.max_total_positions
        THEN <<FALSE, "max_total_positions_reached">>
        ELSE IF Len(symbol_positions(pm, symbol)) > cfg.max_positions_per_symbol
        THEN <<FALSE, "max_positions_per_symbol_reached">>
        ELSE <<TRUE, "ok">>

can_open_position(pm, cfg, symbol) ==
    LET loss_limit_amount == RMul(cfg.initial_capital,
                                  RDiv(cfg.daily_loss_limit_pct, RI(100)))
    IN  IF RLt(pm.daily_pnl, RNeg(loss_limit_amount))
        THEN <<FALSE, "daily_loss_limit_reached">>
        ELSE IF total_open(pm) >= cfg.max_total_positions
        THEN <<FALSE, "max_total_positions_reached">>
        ELSE IF Len(symbol_positions(pm, symbol)) >= cfg.max_positions_per_symbol
        THEN <<FALSE, "max_positions_per_symbol_reached">>
        ELSE <<TRUE, "ok">>

\* PositionManager.calculate_position_size
pm_calculate_position_size(pm, cfg, symbol, entry_price, stop_loss, direction) ==
    LET risk_per_share == RAbs(RSub(entry_price, stop_loss))
        max_risk_amount == RMul(pm.current_capital,
                                RDiv(cfg.max_position_risk_pct, RI(100)))
        position_size == RInt(RDiv(max_risk_amount, risk_per_share))
        max_position_value == RMul(pm.current_capital, R(95, 100))
        capped == IF RLt(max_position_value, RMul(RI(position_size), entry_price))
                  THEN RInt(RDiv(max_position_value, entry_price))
                  ELSE position_size
    IN  IF RLe(risk_per_share, RI(0)) THEN 0
        ELSE IF capped < 1 THEN 0 ELSE capped

\* size = NoSize stands for size=None
NoSize == -1

\* PositionManager.open_position: [pm |-> the manager after the call,
\* position |-> the Position returned, NoPosition for None]
open_position(pm, cfg, symbol, direction, entry_price, entry_time, entry_bar_idx, stop_loss, entry_vwap, entry_z, size) ==
    LET size1 == IF size = NoSize
                 THEN pm_calculate_position_size(pm, cfg, symbol, entry_price,
                                                 stop_loss, direction)
                 ELSE size
        id == pm.position_counter
        position == [position_id |-> id,
                     symbol |-> symbol,
                     direction |-> direction,
                     entry_price |-> entry_price,
                     entry_time |-> entry_time,
                     entry_bar_idx |-> entry_bar_idx,
                     size |-> size1,
                     stop_loss |-> stop_loss,
                     entry_vwap |-> entry_vwap,
                     entry_z |-> entry_z,
                     exit_price |-> RNone,
                     exit_time |-> NoDay,
                     exit_reason |-> "None",
                     realized_pnl |-> RNone,
                     commission |-> RI(0),
                     slippage |-> RI(0)]
    IN  IF ~can_open_position(pm, cfg, symbol)[1] THEN [pm |-> pm, position |-> NoPosition]
        ELSE IF size1 <= 0 THEN [pm |-> pm, position |-> NoPosition]
        ELSE [pm |-> [pm EXCEPT
                        !.positions = (id :> position) @@ @,
                        !.position_counter = @ + 1,
                        !.open_positions =
                            (symbol :> Append(symbol_positions(pm, symbol), id)) @@ @],
              position |-> id]

\* PositionManager._calculate_slippage (both branches compute the same)
_calculate_slippage(cfg, pos, exit_price) ==
    LET entry_slippage == RMul(RMul(pos.entry_price, RI(pos.size)),
                               RDiv(cfg.slippage_bps, RI(10000)))
        exit_slippage == RMul(RMul(exit_price, RI(pos.size)),
                              RDiv(cfg.slippage_bps, RI(10000)))
    IN  RAdd(entry_slippage, exit_slippage)

\* list.remove(x) that leaves the list as it is
list_remove_nothing(s, x) == s

\* list.remove(x): the list without its first element equal to x
RECURSIVE list_remove(_, _)
list_remove(s, x) ==
    IF s = <<>> THEN <<>>
    ELSE IF s[1] = x THEN Tail(s)
    ELSE <<s[1]>> \o list_remove(Tail(s), x)

InList(s, x) == \E k \in 1..Len(s) : s[k] = x

\* a function without the key k (del d[k])
without_key(f, k) == [x \in (DOMAIN f) \ {k} |-> f[x]]

\* close_position charging the configured costs whatever costs it is given
close_position_config_costs(pm, cfg, id, exit_price, exit_time, exit_reason, commission, slippage) ==
    LET position == pm.positions[id]
        closed == position_close(position, exit_price, exit_time, exit_reason,
                                 cfg.commission_per_trade,
                                 _calculate_slippage(cfg, position, exit_price))
        pm1 == [pm EXCEPT !.positions[id] = closed,
                          !.current_capital = RAdd(@, closed.realized_pnl),
                          !.daily_pnl = RAdd(@, closed.realized_pnl)]
        remaining == list_remove(symbol_positions(pm, position.symbol), id)
    IN  IF ~InList(symbol_positions(pm, position.symbol), id)
        THEN [pm |-> pm1, pnl |-> closed.realized_pnl, raised |-> TRUE]
        ELSE [pm |-> [pm1 EXCEPT
                        !.open_positions =
                            IF remaining = <<>> THEN without_key(@, position.symbol)
                            ELSE [@ EXCEPT ![position.symbol] = remaining],
                        !.closed_positions = Append(@, id)],
              pnl |-> closed.realized_pnl,
              raised |-> FALSE]

\* PositionManager.close_position: [pm |-> the manager after the call,
\* pnl |-> the realized P&L returned, raised |-> TRUE when list.remove (or the
\* dict lookup before it) raises, which leaves the updates made before it]
close_position(pm, cfg, id, exit_price, exit_time, exit_reason, commission, slippage) ==
    LET position == pm.positions[id]
        commission1 == IF commission = RNone THEN cfg.commission_per_trade ELSE commission
        slippage1 == IF slippage = RNone THEN _calculate_slippage(cfg, position, exit_price)
                     ELSE slippage
        closed == position_close(position, exit_price, exit_time, exit_reason,
                                 commission1, slippage1)
        realized_pnl == closed.realized_pnl
        pm1 == [pm EXCEPT !.positions[id] = closed,
                          !.current_capital = RAdd(@, realized_pnl),
                          !.daily_pnl = RAdd(@, realized_pnl)]
        remaining == list_remove(symbol_positions(pm, position.symbol), id)
    IN  IF ~InList(symbol_positions(pm, position.symbol), id)
        THEN [pm |-> pm1, pnl |-> realized_pnl, raised |-> TRUE]
        ELSE [pm |-> [pm1 EXCEPT
                        !.open_positions =
                            IF remaining = <<>> THEN without_key(@, position.symbol)
                            ELSE [@ EXCEPT ![position.symbol] = remaining],
                        !.closed_positions = Append(@, id)],
              pnl |-> realized_pnl,
              raised |-> FALSE]

\* float('inf')
RInf == <<1, 0>>

\* PositionManager.get_performance_summary: the trade counts, the P&L sums and
\* the profit factor of the summary
get_performance_summary(pm) ==
    LET pnls == [k \in 1..Len(pm.closed_positions) |->
                    pm.positions[pm.closed_positions[k]].realized_pnl]
        total_trades == Len(pnls)
        winning_trades == SelectSeq(pnls, LAMBDA x : RLt(RI(0), x))
        losing_trades == SelectSeq(pnls, LAMBDA x : RLe(x, RI(0)))
        gross_profit == RSum(winning_trades)
        gross_loss == RAbs(RSum(losing_trades))
    IN  IF total_trades = 0
        THEN [total_trades |-> 0, winning_trades |-> 0, losing_trades |-> 0,
              total_pnl |-> RI(0), gross_profit |-> RI(0), gross_loss |-> RI(0),
              profit_factor |-> RI(0), current_capital |-> pm.current_capital]
        ELSE [total_trades |-> total_trades,
              winning_trades |-> Len(winning_trades),
              losing_trades |-> Len(losing_trades),
              total_pnl |-> RSum(pnls),
              gross_profit |-> gross_profit,
              gross_loss |-> gross_loss,
              profit_factor |-> IF RLt(RI(0), gross_loss) THEN RDiv(gross_profit, gross_loss)
                                ELSE RInf,
              current_capital |-> pm.current_capital]

(***************************************************************************)
(* backtest.py: run_backtest                                               *)
(***************************************************************************)
\* session_start / session_end given as the int HHMM, in minutes
hhmm_to_minutes(hhmm) == ((hhmm \div 100) * 60) + (hhmm % 100)

RECURSIVE sum_unrealized(_, _, _)
sum_unrealized(pm, ids, price) ==
    IF ids = {} THEN RI(0)
    ELSE LET id == CHOOSE x \in ids : TRUE
         IN  RAdd(unrealized_pnl(pm.positions[id], price),
                  sum_unrealized(pm, ids \ {id}, price))

open_ids(pm) ==
    {id \in DOMAIN pm.positions :
        \E s \in DOMAIN pm.open_positions : InList(pm.open_positions[s], id)}

\* the TRACK EQUITY block: the snapshot appended for a bar
equity_snapshot(pm, bar) ==
    [timestamp |-> bar.timestamp,
     equity |-> RAdd(pm.current_capital, sum_unrealized(pm, open_ids(pm), RI(bar.close))),
     cash |-> pm.current_capital,
     open_positions |-> Cardinality(DOMAIN pm.open_positions)]

\* _close_position: [pm, fills]
_close_position(pm, id, bar, cfg, fills, reason) ==
    LET position == pm.positions[id]
        order == Order(position.symbol,
                       IF position.direction = "LONG" THEN "SHORT" ELSE "LONG",
                       position.size, bar.timestamp)
        fill == fill_market_order(order, bar, cfg, TRUE)
    IN  [pm |-> close_position(pm, cfg, id, fill.fill_price, bar.timestamp, reason,
                               fill.commission, fill.slippage).pm,
         fills |-> Append(fills, fill)]

\* _force_close_positions: [pm, fills]
_force_close_positions(pm, symbol, bar, cfg, fills) ==
    IF get_position(pm, symbol) # NoPosition
    THEN _close_position(pm, get_position(pm, symbol), bar, cfg, fills, "eod_close")
    ELSE [pm |-> pm, fills |-> fills]

\* the DAILY RESET without the re-initialisation of the state
daily_reset_state_kept(st, symbol, cfg, i, new_day) == [st EXCEPT !.bar_idx = i]

\* state.bar_idx = i and the DAILY RESET of the state: the StrategyState the
\* indicators are then updated on
daily_reset_state(st, symbol, cfg, i, new_day) ==
    IF new_day THEN init_strategy_state(symbol, cfg)
    ELSE [st EXCEPT !.bar_idx = i]

\* CHECK TIME FILTERS: the bar is skipped as too close to the open
skip_open_filter(bar, cfg) ==
    TimeOfDay(bar.timestamp) < hhmm_to_minutes(cfg.session_start) + cfg.skip_open_minutes

\* the close-before-end window starting one minute late
close_before_end_filter_late(bar, cfg) ==
    TimeOfDay(bar.timestamp) > hhmm_to_minutes(cfg.session_end) - cfg.close_before_end_minutes

\* CHECK TIME FILTERS: the bar is in the close-before-end window
close_before_end_filter(bar, cfg) ==
    TimeOfDay(bar.timestamp) >= hhmm_to_minutes(cfg.session_end) - cfg.close_before_end_minutes

\* EXIT LOGIC with the holding time checked before the stop loss
exit_logic_hold_first(pos, bar, exit, cfg) ==
    IF bar.timestamp - pos.entry_time >= cfg.max_holding_minutes THEN "max_hold_time"
    ELSE IF is_stop_loss_hit(pos, bar) THEN "stop_loss"
    ELSE IF exit[1] THEN exit[2]
    ELSE "None"

\* EXIT LOGIC: the exit_reason current_position is closed with on the bar,
\* "None" when it stays open; exit is what check_exit_condition returns
exit_logic(pos, bar, exit, cfg) ==
    IF is_stop_loss_hit(pos, bar) THEN "stop_loss"
    ELSE IF bar.timestamp - pos.entry_time >= cfg.max_holding_minutes THEN "max_hold_time"
    ELSE IF exit[1] THEN exit[2]
    ELSE "None"

\* what one iteration of the bar loop leaves: the manager, the state, the
\* fills, the equity curve, where the run goes on (pc) and the branch taken
bar_result(pm, st, fills, equity, next_pc, path) ==
    [pm |-> pm, state |-> st, fills |-> fills, equity |-> equity, pc |-> next_pc,
     path |-> path]

\* the iteration ends with continue: no equity snapshot
continue_loop(pm, st, fills, path) ==
    bar_result(pm, st, fills, equity_curve, "bar_loop", path)

\* the iteration reaches TRACK EQUITY
track_equity(pm, st, fills, bar, path) ==
    bar_result(pm, st, fills, Append(equity_curve, equity_snapshot(pm, bar)),
               "bar_loop", path)

\* CALCULATE ATR: None before stop_atr_window bars; bars1 is bars[:i+1]
bar_atr(bars1, i, cfg) ==
    IF i >= cfg.stop_atr_window
    THEN calculate_atr(SubSeq(bars1, Max(0, i - cfg.stop_atr_window) + 1, i + 1),
                       cfg.stop_atr_window)
    ELSE RNone

\* ENTRY LOGIC once a signal and its stop loss are there: sizing, validation,
\* can_open_position, the entry order and open_position
entry_order(bar, symbol, pm, st, vwap, z_score, direction, stop_loss, position_size) ==
    LET fill == fill_market_order(Order(symbol, direction, position_size, bar.timestamp),
                                  bar, config, TRUE)
        opened == open_position(pm, config, symbol, direction, fill.fill_price,
                                bar.timestamp, st.bar_idx, stop_loss, vwap, z_score,
                                position_size)
    IN  IF ~validate_trade_risk(RI(bar.close), stop_loss, vwap, direction, config, RI(1))[1]
        THEN continue_loop(pm, st, all_fills, "trade_rejected")
        ELSE IF ~can_open_position(pm, config, symbol)[1]
        THEN continue_loop(pm, st, all_fills, "cannot_open")
        ELSE track_equity(opened.pm, st, Append(all_fills, fill), bar,
                          IF opened.position # NoPosition THEN "entry"
                          ELSE "entry_refused")

\* ENTRY LOGIC for a symbol without open position; stop is what
\* calculate_stop_loss gives for the signal, stop.ok FALSE when it raises
entry_step(bar, symbol, pm, st, vwap, z_score, direction, stop) ==
    IF ~check_daily_risk_limit(pm.daily_pnl, config.initial_capital,
                               config.daily_loss_limit_pct)[1]
    THEN continue_loop(pm, st, all_fills, "daily_loss_limit")
    ELSE IF direction = "None" THEN track_equity(pm, st, all_fills, bar, "no_signal")
    ELSE IF ~stop.ok THEN bar_result(pm, st, all_fills, equity_curve, "aborted", "error")
    ELSE entry_order(bar, symbol, pm, st, vwap, z_score, direction, stop.value,
                     calculate_position_size(RI(bar.close), stop.value, direction,
                                             pm.current_capital,
                                             config.max_position_risk_pct))

\* EXIT LOGIC that goes on to the ENTRY LOGIC of the same bar after closing
\* the position, instead of continuing with the next bar
exit_step_then_entry(bar, pm, st, vwap, current_position, exit_reason) ==
    IF exit_reason # "None"
    THEN LET c == _close_position(pm, current_position, bar, config, all_fills,
                                  exit_reason)
             z_score == calculate_z_score(RI(bar.close), vwap, st.rolling_mean_deviation,
                                          st.rolling_std_sq)
             direction == generate_entry_signal(bar, vwap, z_score,
                                                calculate_pct_deviation(RI(bar.close), vwap),
                                                config, st, get_position(c.pm, st.symbol))
         IN  entry_step(bar, st.symbol, c.pm, st, vwap, z_score, direction,
                        calculate_stop_loss(RI(bar.close), direction, config,
                                            bar_atr(Append(bars, bar), Len(bars), config)))
    ELSE track_equity(pm, st, all_fills, bar, "hold")

\* EXIT LOGIC for current_position, the open position of the symbol
exit_step(bar, pm, st, vwap, current_position, exit_reason) ==
    IF exit_reason # "None"
    THEN LET c == _close_position(pm, current_position, bar, config, all_fills,
                                  exit_reason)
         IN  continue_loop(c.pm, st, c.fills, exit_reason)
    ELSE track_equity(pm, st, all_fills, bar, "hold")

\* the bar loop from CHECK TIME FILTERS on, the indicators being updated:
\* st is the state after update_strategy_state, atr the ATR of the bar
bar_decision(bar, symbol, pm, st, vwap, z_score, pct_deviation, atr, current_position) ==
    IF skip_open_filter(bar, config) THEN continue_loop(pm, st, all_fills, "skip_open")
    ELSE IF close_before_end_filter(bar, config)
    THEN LET c == _force_close_positions(pm, symbol, bar, config, all_fills)
         IN  continue_loop(c.pm, st, c.fills, "close_before_end")
    ELSE IF current_position # NoPosition
    THEN exit_step(bar, pm, st, vwap, current_position,
                   exit_logic(pm.positions[current_position], bar,
                              check_exit_condition(pm.positions[current_position], bar,
                                                   vwap, st.rolling_mean_deviation,
                                                   st.rolling_std_sq, config),
                              config))
    ELSE entry_step(bar, symbol, pm, st, vwap, z_score,
                    generate_entry_signal(bar, vwap, z_score, pct_deviation, config, st,
                                          get_position(pm, st.symbol)),
                    calculate_stop_loss(RI(bar.close),
                                        generate_entry_signal(bar, vwap, z_score,
                                                              pct_deviation, config, st,
                                                              get_position(pm, st.symbol)),
                                        config, atr))

\* UPDATE INDICATORS, on the state and manager the daily reset leaves
bar_indicators(bar, bars1, symbol, i, pm, st, vwap) ==
    bar_decision(bar, symbol, pm, st, vwap,
                 calculate_z_score(RI(bar.close), vwap, st.rolling_mean_deviation,
                                   st.rolling_std_sq),
                 calculate_pct_deviation(RI(bar.close), vwap),
                 bar_atr(bars1, i, config),
                 get_position(pm, symbol))

\* the VWAP the bar loop computes for bars[:i+1]
bar_vwap(bars1) == calculate_vwap(bars1)

\* The body of the bar loop for bar, the next bar of the current symbol, from
\* the daily reset on.
process_bar_on(bar, bars1, symbol, i, new_day) ==
    bar_indicators(bar, bars1, symbol, i,
                   IF new_day THEN reset_daily_tracking(PM, bar.timestamp) ELSE PM,
                   update_strategy_state(daily_reset_state(state, symbol, config, i, new_day),
                                         bar, bar_vwap(bars1), config),
                   bar_vwap(bars1))

\* The body of the bar loop for bar, the next bar of the current symbol: what
\* bar_result gives.
process_bar(bar) ==
    process_bar_on(bar, Append(bars, bar), config.symbols[sym_idx], Len(bars),
                   current_day = NoDay \/ DateOf(bar.timestamp) # current_day)

(***************************************************************************)
(* Inputs: the configurations and the bars a run is checked on.            *)
(***************************************************************************)
\* percentage signals, fixed stop, one position per symbol
CfgPct ==
    [symbols |-> <<"AAA", "BBB">>,
     initial_capital |-> RI(1000),
     signal_type |-> "pct",
     entry_z |-> R(1, 2),
     exit_z |-> RI(0),
     entry_pct |-> R(1, 200),
     exit_pct |-> RI(0),
     rolling_window |-> 3,
     cooldown_bars |-> 2,
     min_vwap_bars |-> 1,
     volume_avg_window |-> 2,
     min_volume_pct_of_avg |-> RI(50),
     session_start |-> 930,
     session_end |-> 935,
     skip_open_minutes |-> 1,
     close_before_end_minutes |-> 1,
     max_holding_minutes |-> 2,
     stop_type |-> "fixed",
     stop_atr_window |-> 2,
     stop_atr_mult |-> RI(1),
     fixed_stop_pct |-> R(1, 2),
     max_position_risk_pct |-> RI(1),
     daily_loss_limit_pct |-> RI(3),
     max_positions_per_symbol |-> 1,
     max_total_positions |-> 2,
     slippage_model |-> "bps",
     slippage_bps |-> RI(100),
     commission_per_trade |-> RI(1),
     volume_participation_limit_pct |-> RI(10)]

\* z-score signals, no warm-up and no cooldown, one position in all
CfgZ ==
    [CfgPct EXCEPT !.signal_type = "zscore",
                   !.cooldown_bars = 0,
                   !.min_vwap_bars = 0,
                   !.max_positions_per_symbol = 2,
                   !.max_total_positions = 1,
                   !.slippage_bps = RI(0),
                   !.daily_loss_limit_pct = R(1, 10)]

\* percentage signals, ATR stop
CfgAtr ==
    [CfgPct EXCEPT !.stop_type = "atr",
                   !.cooldown_bars = 1,
                   !.commission_per_trade = RI(0)]

ConfigSet == {CfgPct, CfgZ, CfgAtr}

\* ATR stop with the smallest stop_atr_window load_config accepts
CfgAtrValidated == [CfgAtr EXCEPT !.stop_atr_window = 5]

\* percentage signals with a warm-up of two bars
CfgWarmup == [CfgPct EXCEPT !.min_vwap_bars = 2]

\* a capital below the price of one share
CfgSmallCapital == [CfgPct EXCEPT !.initial_capital = RI(100)]

\* the configurations run_backtest is run with
RunConfigSet == ConfigSet \cup {CfgAtrValidated, CfgWarmup, CfgSmallCapital}

Symbols == {"AAA", "BBB"}

\* the OHLCV values a bar takes
BarShapes ==
    {[open |-> 100, high |-> 100, low |-> 100, close |-> 100, volume |-> 1],
     [open |-> 100, high |-> 105, low |-> 100, close |-> 104, volume |-> 1],
     [open |-> 100, high |-> 100, low |-> 95, close |-> 96, volume |-> 1]}

\* the timestamps the bar after the bars bs can carry: one minute later, or
\* the opening minute of the next day; the first bar of a symbol's file is at
\* the open or one or two minutes after it
NextTimestamps(bs) ==
    IF bs = <<>> THEN {570, 571, 572}
    ELSE LET last == bs[Len(bs)].timestamp
         IN  {last + 1, (DateOf(last) + 1) * 1440 + 570}

NextBars(bs) ==
    {[timestamp |-> ts, open |-> sh.open, high |-> sh.high, low |-> sh.low,
      close |-> sh.close, volume |-> sh.volume] : ts \in NextTimestamps(bs), sh \in BarShapes}

(***************************************************************************)
(* The run of run_backtest.                                                *)
(***************************************************************************)
SetPM(pm) ==
    /\ positions' = pm.positions
    /\ open_positions' = pm.open_positions
    /\ closed_positions' = pm.closed_positions
    /\ position_counter' = pm.position_counter
    /\ current_capital' = pm.current_capital
    /\ daily_pnl' = pm.daily_pnl
    /\ current_date' = pm.current_date

Init ==
    /\ config \in RunConfigSet
    /\ pc = "symbol_loop"
    /\ sym_idx = 1
    /\ bars = <<>>
    /\ state = init_strategy_state("None", config)
    /\ current_day = NoDay
    /\ positions = pm_init(config, config.initial_capital).positions
    /\ open_positions = pm_init(config, config.initial_capital).open_positions
    /\ closed_positions = pm_init(config, config.initial_capital).closed_positions
    /\ position_counter = pm_init(config, config.initial_capital).position_counter
    /\ current_capital = pm_init(config, config.initial_capital).current_capital
    /\ daily_pnl = pm_init(config, config.initial_capital).daily_pnl
    /\ current_date = pm_init(config, config.initial_capital).current_date
    /\ all_fills = <<>>
    /\ equity_curve = <<>>
    /\ n_steps = 0
    /\ call = [op |-> "init", path |-> "None"]
    /\ last_close = <<>>

\* load_bars returns the bars of the symbol: the bar loop starts
LoadBars ==
    /\ pc = "symbol_loop"
    /\ sym_idx <= Len(config.symbols)
    /\ n_steps < MaxBars
    /\ pc' = "bar_loop"
    /\ bars' = <<>>
    /\ state' = init_strategy_state(config.symbols[sym_idx], config)
    /\ current_day' = NoDay
    /\ call' = [op |-> "load_bars", path |-> "ok"]
    /\ UNCHANGED <<config, sym_idx, all_fills, equity_curve, n_steps>>
    /\ UNCHANGED pm_vars
    /\ UNCHANGED last_close

\* load_bars raises and the symbol loop is left: no later symbol is processed
LoadBarsFailsEndsLoop ==
    /\ pc = "symbol_loop"
    /\ sym_idx <= Len(config.symbols)
    /\ sym_idx' = Len(config.symbols) + 1
    /\ call' = [op |-> "load_bars", path |-> "error"]
    /\ UNCHANGED <<config, pc, bars, state, current_day, all_fills, equity_curve, n_steps>>
    /\ UNCHANGED pm_vars
    /\ UNCHANGED last_close

\* load_bars raises: the symbol is skipped
LoadBarsFails ==
    /\ pc = "symbol_loop"
    /\ sym_idx <= Len(config.symbols)
    /\ sym_idx' = sym_idx + 1
    /\ call' = [op |-> "load_bars", path |-> "error"]
    /\ UNCHANGED <<config, pc, bars, state, current_day, all_fills, equity_curve, n_steps>>
    /\ UNCHANGED pm_vars
    /\ UNCHANGED last_close

\* one iteration of the bar loop
ProcessBar ==
    /\ pc = "bar_loop"
    /\ n_steps < MaxBars
    /\ \E bar \in NextBars(bars) : \E out \in {process_bar(bar)} :
            /\ SetPM(out.pm)
            /\ state' = out.state
            /\ all_fills' = out.fills
            /\ equity_curve' = out.equity
            /\ pc' = out.pc
            /\ bars' = Append(bars, bar)
            /\ current_day' = DateOf(bar.timestamp)
            /\ call' = [op |-> "process_bar", path |-> out.path]
    /\ n_steps' = n_steps + 1
    /\ UNCHANGED <<config, sym_idx, last_close>>

\* the bars of the symbol are exhausted: next symbol
EndOfBars ==
    /\ pc = "bar_loop"
    /\ bars # <<>>
    /\ pc' = "symbol_loop"
    /\ sym_idx' = sym_idx + 1
    /\ call' = [op |-> "end_of_bars", path |-> "None"]
    /\ UNCHANGED <<config, bars, state, current_day, all_fills, equity_curve, n_steps>>
    /\ UNCHANGED pm_vars
    /\ last_close' = IF symbol_positions(PM, config.symbols[sym_idx]) # <<>>
                     THEN (config.symbols[sym_idx] :> bars[Len(bars)].close) @@ last_close
                     ELSE last_close

\* all symbols processed: the results are generated from the final state
Finish ==
    /\ pc = "symbol_loop"
    /\ sym_idx > Len(config.symbols)
    /\ pc' = "done"
    /\ call' = [op |-> "generate_results", path |-> "None"]
    /\ UNCHANGED <<config, sym_idx, bars, state, current_day, all_fills, equity_curve,
                   n_steps>>
    /\ UNCHANGED pm_vars
    /\ UNCHANGED last_close

Next == LoadBars \/ LoadBarsFails \/ ProcessBar \/ EndOfBars \/ Finish

Spec == Init /\ [][Next]_vars

(***************************************************************************)
(* The PositionManager driven directly: any sequence of open_position,     *)
(* close_position and reset_daily_tracking calls.                          *)
(***************************************************************************)
PMTimestamps == {571, 1440 + 571}

PMPrices == {RI(100), RI(104)}

PMSizes == {NoSize, 3}

\* <<commission, slippage>> arguments of close_position; RNone is Python's None
PMCosts == {<<RNone, RNone>>, <<RI(1), RNone>>, <<RI(0), RI(0)>>}

InitPMState ==
    /\ config \in ConfigSet
    /\ pc = "position_manager"
    /\ sym_idx = 1
    /\ bars = <<>>
    /\ state = init_strategy_state("None", config)
    /\ current_day = NoDay
    /\ positions = pm_init(config, config.initial_capital).positions
    /\ open_positions = pm_init(config, config.initial_capital).open_positions
    /\ closed_positions = pm_init(config, config.initial_capital).closed_positions
    /\ position_counter = pm_init(config, config.initial_capital).position_counter
    /\ current_capital = pm_init(config, config.initial_capital).current_capital
    /\ daily_pnl = pm_init(config, config.initial_capital).daily_pnl
    /\ current_date = pm_init(config, config.initial_capital).current_date
    /\ all_fills = <<>>
    /\ equity_curve = <<>>
    /\ n_steps = 0
    /\ call = [op |-> "init"]
    /\ last_close = <<>>

\* position_manager.open_position(...)
PMOpen ==
    /\ pc = "position_manager"
    /\ n_steps < MaxCalls
    /\ \E symbol \in Symbols, direction \in {"LONG", "SHORT"}, entry_price \in PMPrices,
          size \in PMSizes :
        LET stop_loss == IF direction = "LONG" THEN RSub(entry_price, RI(1))
                         ELSE RAdd(entry_price, RI(1))
            out == open_position(PM, config, symbol, direction, entry_price, 571, n_steps,
                                 stop_loss, entry_price, ZOf(RI(0)), size)
        IN  /\ SetPM(out.pm)
            /\ call' = [op |-> "open_position", symbol |-> symbol, size |-> size,
                        position |-> out.position]
    /\ n_steps' = n_steps + 1
    /\ UNCHANGED <<config, pc, sym_idx, bars, state, current_day, all_fills, equity_curve>>
    /\ UNCHANGED last_close

\* position_manager.close_position(position, ...), position any Position the
\* manager has returned
PMClose ==
    /\ pc = "position_manager"
    /\ n_steps < MaxCalls
    /\ \E id \in DOMAIN positions, exit_price \in PMPrices, costs \in PMCosts :
        LET commission == costs[1]
            slippage == costs[2]
            out == close_position(PM, config, id, exit_price, 572, "signal_exit",
                                  commission, slippage)
        IN  /\ SetPM(out.pm)
            /\ call' = [op |-> "close_position", position |-> id,
                        before |-> positions[id], exit_price |-> exit_price,
                        commission |-> commission, slippage |-> slippage,
                        pnl |-> out.pnl, raised |-> out.raised]
    /\ n_steps' = n_steps + 1
    /\ UNCHANGED <<config, pc, sym_idx, bars, state, current_day, all_fills, equity_curve>>
    /\ UNCHANGED last_close

\* position_manager.reset_daily_tracking(current_date)
PMReset ==
    /\ pc = "position_manager"
    /\ n_steps < MaxCalls
    /\ \E ts \in PMTimestamps :
        /\ SetPM(reset_daily_tracking(PM, ts))
        /\ call' = [op |-> "reset_daily_tracking", ts |-> ts]
    /\ n_steps' = n_steps + 1
    /\ UNCHANGED <<config, pc, sym_idx, bars, state, current_day, all_fills, equity_curve>>
    /\ UNCHANGED last_close

\* position_manager.get_performance_summary(): reads the manager
PMSummary ==
    /\ pc = "position_manager"
    /\ call' = [op |-> "get_performance_summary", result |-> get_performance_summary(PM)]
    /\ UNCHANGED <<config, pc, sym_idx, bars, state, current_day, all_fills, equity_curve,
                   n_steps>>
    /\ UNCHANGED pm_vars
    /\ UNCHANGED last_close

NextPM == PMOpen \/ PMClose \/ PMReset \/ PMSummary

SpecPM == InitPMState /\ [][NextPM]_vars

(***************************************************************************)
(* The pure functions called on their own, with arguments from small sets. *)
(***************************************************************************)
FnCapitals == {RI(1000), RI(100000)}

FnLimitPcts == {RI(3), R(1, 10)}

FnDailyPnls == {RI(-3500), RI(-3000), RI(-2500), RI(-30), RI(-1), RI(0), RI(500)}

FnMeasures == {R(-1, 1), R(-1, 2), RI(0), R(1, 2), R(1, 1)}

FnPctDeviations == {R(-1, 100), R(-1, 200), RI(0), R(1, 200), R(1, 100)}

FnVolumeHistories == {<<>>, <<1>>, <<1, 1>>, <<4, 4>>, <<1, 4, 4>>}

FnStates(cfg) ==
    { [init_strategy_state("AAA", cfg) EXCEPT !.bar_idx = b,
                                               !.last_exit_bar_idx = e,
                                               !.session_start = ss,
                                               !.volume_history = vh] :
        b \in 0..2, e \in {-1, 1}, ss \in {NoDay, 570}, vh \in FnVolumeHistories }

FnBars == { [timestamp |-> ts, open |-> 100, high |-> 100, low |-> 100, close |-> 100,
             volume |-> v] : ts \in {570, 571}, v \in {0, 1, 2} }

\* the volume slippage model
CfgVolume == [CfgPct EXCEPT !.slippage_model = "volume"]

\* a configuration object whose three mode fields hold values the functions
\* do not know
CfgUnknownModes ==
    [CfgPct EXCEPT !.signal_type = "momentum",
                   !.stop_type = "trailing",
                   !.slippage_model = "none"]

\* the config argument of the functions
FnConfigSet == ConfigSet \cup {CfgVolume, CfgUnknownModes}

FnOrderSizes == {1, 3}

\* bars an order is filled on: open and close differ; with the participation
\* limit of 10% an order of 1 is 5%, 10% and 20% of the volumes 20, 10 and 5
FnFillBars == { [timestamp |-> 571, open |-> 100, high |-> 105, low |-> 100, close |-> 104,
                 volume |-> v] : v \in {0, 5, 10, 20} }

InitFn ==
    /\ config \in FnConfigSet
    /\ pc = "functions"
    /\ sym_idx = 1
    /\ bars = <<>>
    /\ state = init_strategy_state("None", config)
    /\ current_day = NoDay
    /\ positions = <<>>
    /\ open_positions = <<>>
    /\ closed_positions = <<>>
    /\ position_counter = 0
    /\ current_capital = config.initial_capital
    /\ daily_pnl = RI(0)
    /\ current_date = NoDay
    /\ all_fills = <<>>
    /\ equity_curve = <<>>
    /\ n_steps = 0
    /\ call = [op |-> "init"]
    /\ last_close = <<>>

\* check_daily_risk_limit(current_daily_pnl, initial_capital, daily_loss_limit_pct)
CallCheckDailyRiskLimit ==
    /\ pc = "functions"
    /\ \E current_daily_pnl \in FnDailyPnls, initial_capital \in FnCapitals,
          daily_loss_limit_pct \in FnLimitPcts :
        call' = [op |-> "check_daily_risk_limit",
                 current_daily_pnl |-> current_daily_pnl,
                 initial_capital |-> initial_capital,
                 daily_loss_limit_pct |-> daily_loss_limit_pct,
                 result |-> check_daily_risk_limit(current_daily_pnl, initial_capital,
                                                   daily_loss_limit_pct)]
    /\ pc' = "returned"
    /\ UNCHANGED <<config, sym_idx, bars, state, current_day, pm_vars, all_fills,
                   equity_curve, n_steps>>
    /\ UNCHANGED last_close

\* generate_entry_signal(bar, vwap, z_score, pct_deviation, config, state,
\* position_manager); has_position: position_manager holds a position of state.symbol
\* (no statement of generate_entry_signal or _check_entry_filters raises)
CallGenerateEntrySignal ==
    /\ pc = "functions"
    /\ \E bar \in FnBars, z \in FnMeasures, pct_deviation \in FnPctDeviations,
          st \in FnStates(config), has_position \in BOOLEAN :
        call' = [op |-> "generate_entry_signal",
                 bar |-> bar,
                 z_score |-> ZOf(z),
                 pct_deviation |-> pct_deviation,
                 state |-> st,
                 has_position |-> has_position,
                 raised |-> FALSE,
                 result |-> generate_entry_signal(bar, RI(100), ZOf(z), pct_deviation,
                                                  config, st,
                                                  IF has_position THEN 0 ELSE NoPosition)]
    /\ pc' = "returned"
    /\ UNCHANGED <<config, sym_idx, bars, state, current_day, pm_vars, all_fills,
                   equity_curve, n_steps>>
    /\ UNCHANGED last_close

\* fill_market_order(order, bar, config, use_realistic_fills); no statement of
\* fill_market_order, simulate_fill_price, apply_slippage or apply_commission
\* raises, so the call always returns a Fill
CallFillMarketOrder ==
    /\ pc = "functions"
    /\ \E direction \in {"LONG", "SHORT"}, size \in FnOrderSizes, bar \in FnFillBars,
          use_realistic_fills \in BOOLEAN :
        call' = [op |-> "fill_market_order",
                 order |-> Order("AAA", direction, size, bar.timestamp),
                 bar |-> bar,
                 use_realistic_fills |-> use_realistic_fills,
                 raised |-> FALSE,
                 result |-> fill_market_order(Order("AAA", direction, size, bar.timestamp),
                                              bar, config, use_realistic_fills)]
    /\ pc' = "returned"
    /\ UNCHANGED <<config, sym_idx, bars, state, current_day, pm_vars, all_fills,
                   equity_curve, n_steps>>
    /\ UNCHANGED last_close

\* the ATR argument of calculate_stop_loss; RNone is atr=None
FnAtrs == {RNone, RI(2)}

\* calculate_stop_loss(entry_price, direction, config, atr); raised when the
\* function ends in its ValueError
CallCalculateStopLoss ==
    /\ pc = "functions"
    /\ \E entry_price \in PMPrices, direction \in {"LONG", "SHORT"}, atr \in FnAtrs :
        call' = [op |-> "calculate_stop_loss",
                 entry_price |-> entry_price,
                 direction |-> direction,
                 atr |-> atr,
                 raised |-> ~calculate_stop_loss(entry_price, direction, config, atr).ok,
                 result |-> calculate_stop_loss(entry_price, direction, config, atr).value]
    /\ pc' = "returned"
    /\ UNCHANGED <<config, sym_idx, bars, state, current_day, pm_vars, all_fills,
                   equity_curve, n_steps>>
    /\ UNCHANGED last_close

\* the Position argument of check_exit_signal: the fields the function reads
FnExitPositions ==
    { [symbol |-> "AAA", direction |-> d, entry_time |-> et,
       stop_loss |-> IF d = "LONG" THEN RI(100 - dist) ELSE RI(100 + dist)] :
        d \in {"LONG", "SHORT"}, et \in {569, 570}, dist \in {0, 1} }

\* check_exit_signal(position, bar, z_score, pct_deviation, config, state); no
\* statement of check_exit_signal raises
CallCheckExitSignal ==
    /\ pc = "functions"
    /\ \E position \in FnExitPositions, bar \in FnBars, z \in FnMeasures,
          pct_deviation \in FnPctDeviations, session_end \in {NoDay, 572} :
        call' = [op |-> "check_exit_signal",
                 position |-> position,
                 bar |-> bar,
                 z_score |-> ZOf(z),
                 pct_deviation |-> pct_deviation,
                 session_end |-> session_end,
                 raised |-> FALSE,
                 result |-> check_exit_signal(position, bar, ZOf(z), pct_deviation, config,
                                              [init_strategy_state("AAA", config)
                                                  EXCEPT !.session_end = session_end])]
    /\ pc' = "returned"
    /\ UNCHANGED <<config, sym_idx, bars, state, current_day, pm_vars, all_fills,
                   equity_curve, n_steps>>
    /\ UNCHANGED last_close

\* the distances |entry - stop| and the risk percentages of the sizing calls
FnStopDistances == {RI(0), R(1, 2), RI(1), RI(3), RI(8)}

FnRiskPcts == {RI(1), RI(3), RI(50)}

FnSizingCapitals == {RI(0), RI(1000), RI(100000)}

\* calculate_position_size(entry_price, stop_loss, direction, capital, max_risk_pct)
CallCalculatePositionSize ==
    /\ pc = "functions"
    /\ \E entry_price \in PMPrices, distance \in FnStopDistances,
          direction \in {"LONG", "SHORT"}, capital \in FnSizingCapitals,
          max_risk_pct \in FnRiskPcts :
        LET stop_loss == IF direction = "LONG" THEN RSub(entry_price, distance)
                         ELSE RAdd(entry_price, distance)
        IN  call' = [op |-> "calculate_position_size",
                     entry_price |-> entry_price,
                     stop_loss |-> stop_loss,
                     direction |-> direction,
                     capital |-> capital,
                     max_risk_pct |-> max_risk_pct,
                     result |-> calculate_position_size(entry_price, stop_loss, direction,
                                                        capital, max_risk_pct)]
    /\ pc' = "returned"
    /\ UNCHANGED <<config, sym_idx, bars, state, current_day, pm_vars, all_fills,
                   equity_curve, n_steps>>
    /\ UNCHANGED last_close

\* PositionManager.calculate_position_size(symbol, entry_price, stop_loss,
\* direction) on a manager with the given current_capital
CallPMCalculatePositionSize ==
    /\ pc = "functions"
    /\ \E entry_price \in PMPrices, distance \in FnStopDistances,
          direction \in {"LONG", "SHORT"}, capital \in FnSizingCapitals :
        LET stop_loss == IF direction = "LONG" THEN RSub(entry_price, distance)
                         ELSE RAdd(entry_price, distance)
        IN  call' = [op |-> "PositionManager.calculate_position_size",
                     entry_price |-> entry_price,
                     stop_loss |-> stop_loss,
                     direction |-> direction,
                     capital |-> capital,
                     max_risk_pct |-> config.max_position_risk_pct,
                     result |-> pm_calculate_position_size(
                                    [PM EXCEPT !.current_capital = capital], config, "AAA",
                                    entry_price, stop_loss, direction)]
    /\ pc' = "returned"
    /\ UNCHANGED <<config, sym_idx, bars, state, current_day, pm_vars, all_fills,
                   equity_curve, n_steps>>
    /\ UNCHANGED last_close

\* equity curves: every list of up to MaxCurve positive values, and the sample
\* curve of the module's self-test
FnEquityValues == {98, 99, 100, 101}

FnSampleCurve == <<100000, 101000, 100500, 102000, 101000, 103000, 102500, 104000>>

FnEquityCurves ==
    UNION { [1..n -> FnEquityValues] : n \in 0..MaxCurve } \cup {FnSampleCurve}

\* RiskMetrics.calculate_max_drawdown(equity_curve)
CallCalculateMaxDrawdown ==
    /\ pc = "functions"
    /\ \E curve \in FnEquityCurves :
        call' = [op |-> "calculate_max_drawdown",
                 equity_curve |-> curve,
                 result |-> calculate_max_drawdown(curve)]
    /\ pc' = "returned"
    /\ UNCHANGED <<config, sym_idx, bars, state, current_day, pm_vars, all_fills,
                   equity_curve, n_steps>>
    /\ UNCHANGED last_close

\* bars update_strategy_state is called with in a row, and the VWAP handed in
\* with each
FnUpdateBars ==
    { [timestamp |-> 571, open |-> 100, high |-> 105, low |-> 95, close |-> c, volume |-> v] :
        <<c, v>> \in {<<96, 1>>, <<100, 2>>, <<104, 3>>, <<100, 1>>} }

FnUpdateVwap == RI(100)

\* update_strategy_state called once for each of the bars bs, in order, on the
\* state st
RECURSIVE update_strategy_state_each(_, _, _)
update_strategy_state_each(st, bs, cfg) ==
    IF bs = <<>> THEN st
    ELSE update_strategy_state_each(update_strategy_state(st, Head(bs), FnUpdateVwap, cfg),
                                    Tail(bs), cfg)

\* init_strategy_state(symbol, config) followed by update_strategy_state(state,
\* bar, vwap, config) for up to MaxUpdates bars
CallUpdateStrategyState ==
    /\ pc = "functions"
    /\ \E n \in 0..MaxUpdates : \E bs \in [1..n -> FnUpdateBars] :
        call' = [op |-> "update_strategy_state",
                 bars |-> bs,
                 vwap |-> FnUpdateVwap,
                 result |-> update_strategy_state_each(init_strategy_state("AAA", config),
                                                       bs, config)]
    /\ pc' = "returned"
    /\ UNCHANGED <<config, sym_idx, bars, state, current_day, pm_vars, all_fills,
                   equity_curve, n_steps>>
    /\ UNCHANGED last_close

\* bars the VWAP is taken over: flat or with a typical price that differs from
\* the close, with and without volume
FnVwapBars ==
    { [timestamp |-> 571, open |-> 100, high |-> h, low |-> 100, close |-> c, volume |-> v] :
        <<h, c, v>> \in {<<100, 100, 0>>, <<100, 100, 1>>, <<105, 104, 0>>, <<105, 104, 2>>} }

\* update_vwap folded over the bars bs from (cum_pv, cum_vol) = (0, 0): what
\* the call on each bar returns
RECURSIVE update_vwap_each(_)
update_vwap_each(bs) ==
    IF bs = <<>> THEN <<>>
    ELSE LET before == update_vwap_each(SubSeq(bs, 1, Len(bs) - 1))
             acc == IF before = <<>> THEN <<RI(0), 0>>
                    ELSE <<before[Len(before)][1], before[Len(before)][2]>>
         IN  Append(before, update_vwap(acc[1], acc[2], bs[Len(bs)]))

\* update_vwap called bar by bar on up to MaxUpdates bars, and calculate_vwap
\* called on every prefix of them
CallUpdateVwap ==
    /\ pc = "functions"
    /\ \E n \in 1..MaxUpdates : \E bs \in [1..n -> FnVwapBars] :
        call' = [op |-> "update_vwap",
                 bars |-> bs,
                 result |-> update_vwap_each(bs),
                 recomputed |-> [k \in 1..n |-> calculate_vwap(SubSeq(bs, 1, k))]]
    /\ pc' = "returned"
    /\ UNCHANGED <<config, sym_idx, bars, state, current_day, pm_vars, all_fills,
                   equity_curve, n_steps>>
    /\ UNCHANGED last_close

NextFn ==
    \/ CallCheckDailyRiskLimit
    \/ CallGenerateEntrySignal
    \/ CallFillMarketOrder
    \/ CallCalculateStopLoss
    \/ CallCheckExitSignal
    \/ CallCalculatePositionSize
    \/ CallPMCalculatePositionSize
    \/ CallCalculateMaxDrawdown
    \/ CallUpdateStrategyState
    \/ CallUpdateVwap

SpecFn == InitFn /\ [][NextFn]_vars

(***************************************************************************)
(* Properties.                                                             *)
(***************************************************************************)
\* the number of times x occurs in the list s
RECURSIVE Occurrences(_, _)
Occurrences(s, x) ==
    IF s = <<>> THEN 0
    ELSE (IF s[1] = x THEN 1 ELSE 0) + Occurrences(Tail(s), x)

\* the open positions of a symbol
OpenOf(symbol) ==
    IF symbol \in DOMAIN open_positions THEN open_positions[symbol] ELSE <<>>

\* the number of times the position id is listed as open, over all symbols
RECURSIVE OpenOccurrencesOver(_, _)
OpenOccurrencesOver(syms, id) ==
    IF syms = {} THEN 0
    ELSE LET x == CHOOSE y \in syms : TRUE
         IN  Occurrences(open_positions[x], id) + OpenOccurrencesOver(syms \ {x}, id)

OpenOccurrences(id) == OpenOccurrencesOver(DOMAIN open_positions, id)

\* the number of open positions over all symbols
OpenCount == Cardinality({id \in DOMAIN positions : OpenOccurrences(id) > 0})

\* C1: after any sequence of open_position, close_position and
\* reset_daily_tracking calls, every symbol has at most max_positions_per_symbol
\* open positions and there are at most max_total_positions open positions in all.
C1_PositionLimits ==
    /\ \A symbol \in Symbols \cup DOMAIN open_positions :
            Len(OpenOf(symbol)) <= config.max_positions_per_symbol
    /\ OpenCount <= config.max_total_positions
    /\ \A id \in DOMAIN positions : OpenOccurrences(id) <= 1

\* C1 witness: both limits are reached and the open_position call just made,
\* with an explicit size, was refused.
C1_Witness ==
    /\ call.op = "open_position"
    /\ call.size = 3
    /\ call.position = NoPosition
    /\ OpenCount = config.max_total_positions
    /\ Len(OpenOf(call.symbol)) = config.max_positions_per_symbol

\* the exit fields of a Position are all None / all filled
ExitUnset(p) ==
    /\ p.exit_price = RNone
    /\ p.exit_time = NoDay
    /\ p.exit_reason = "None"
    /\ p.realized_pnl = RNone

ExitSet(p) ==
    /\ p.exit_price # RNone
    /\ p.exit_time # NoDay
    /\ p.exit_reason # "None"
    /\ p.realized_pnl # RNone

\* every position created is listed exactly once, as open or as closed, with
\* the exit fields unset while open and set once closed
LifecycleInv ==
    \A id \in DOMAIN positions :
        /\ OpenOccurrences(id) + Occurrences(closed_positions, id) = 1
        /\ OpenOccurrences(id) = 1 =>
                /\ Occurrences(OpenOf(positions[id].symbol), id) = 1
                /\ ExitUnset(positions[id])
        /\ Occurrences(closed_positions, id) = 1 => ExitSet(positions[id])

\* a step keeps every position and its size; a position it creates has the
\* size of the order filled for it
SizeFixed ==
    /\ \A id \in DOMAIN positions :
            id \in DOMAIN positions' /\ positions'[id].size = positions[id].size
    /\ \A id \in (DOMAIN positions') \ (DOMAIN positions) :
            /\ positions'[id].size > 0
            /\ Len(all_fills') = Len(all_fills) + 1
            /\ positions'[id].size = all_fills'[Len(all_fills')].order.size

\* C2: in every state of a backtest run each position ever opened is in exactly
\* one of open_positions or closed_positions, never both and never twice; an
\* open position has exit_price, exit_time, exit_reason and realized_pnl unset
\* and a closed one has them set; the size of a position never changes from the
\* size it was opened with.
C2_Lifecycle == [](LifecycleInv) /\ [][SizeFixed]_vars

\* C2 witness: one position has been closed and another is open
C2_Witness ==
    /\ pc = "bar_loop"
    /\ \E a, b \in DOMAIN positions :
        /\ Occurrences(closed_positions, a) = 1
        /\ OpenOccurrences(b) = 1
        /\ positions[a].exit_reason # "eod_close"

\* the step processes one bar of the current symbol (the only step of a run
\* that counts a bar)
BarStep == pc = "bar_loop" /\ n_steps' = n_steps + 1

\* the symbol whose bars are being processed
CurrentSymbol == config.symbols[sym_idx]

\* the bar is past the open-skip and before the close window
InTradingWindow(bar) ==
    /\ TimeOfDay(bar.timestamp) >= hhmm_to_minutes(config.session_start)
                                        + config.skip_open_minutes
    /\ TimeOfDay(bar.timestamp) < hhmm_to_minutes(config.session_end)
                                        - config.close_before_end_minutes

\* the tag the exit priority gives the open position p on the bar, "None" when
\* no exit check holds; z and d are the bar's z-score and percentage deviation
ExpectedExit(p, bar, z, d) ==
    LET stop_hit == IF p.direction = "LONG" THEN RLe(RI(bar.low), p.stop_loss)
                    ELSE RLe(p.stop_loss, RI(bar.high))
        held_long == bar.timestamp - p.entry_time >= config.max_holding_minutes
        strategy_exit ==
            IF config.signal_type = "zscore"
            THEN (IF p.direction = "LONG" THEN ZGe(z, RNeg(config.exit_z))
                  ELSE ZLe(z, config.exit_z))
            ELSE (IF p.direction = "LONG" THEN RLe(RNeg(config.exit_pct), d)
                  ELSE RLe(d, config.exit_pct))
    IN  IF stop_hit THEN "stop_loss"
        ELSE IF held_long THEN "max_hold_time"
        ELSE IF strategy_exit
        THEN (IF config.signal_type = "zscore" THEN "z_score_exit" ELSE "pct_exit")
        ELSE "None"

ExitPriorityStep ==
    BarStep =>
        LET bar == bars'[Len(bars')]
            z == calculate_z_score(RI(bar.close), state'.current_vwap,
                                   state'.rolling_mean_deviation, state'.rolling_std_sq)
            d == calculate_pct_deviation(RI(bar.close), state'.current_vwap)
        IN  (InTradingWindow(bar) /\ OpenOf(CurrentSymbol) # <<>>) =>
                LET id == OpenOf(CurrentSymbol)[1]
                    expected == ExpectedExit(positions[id], bar, z, d)
                IN  IF expected = "None"
                    THEN /\ positions' = positions
                         /\ open_positions' = open_positions
                         /\ closed_positions' = closed_positions
                    ELSE /\ positions'[id].exit_reason = expected
                         /\ closed_positions' = Append(closed_positions, id)
                         /\ CurrentSymbol \notin DOMAIN open_positions'

ExitReasons == {"stop_loss", "max_hold_time", "z_score_exit", "pct_exit", "eod_close"}

\* C3: on every bar inside the trading window on which the symbol has an open
\* position the exit checks apply in fixed priority and the first true one
\* closes the position with its own tag: stop-loss hit gives 'stop_loss' even
\* if the others hold, otherwise holding time >= max_holding_minutes gives
\* 'max_hold_time', otherwise the strategy exit gives 'z_score_exit' or
\* 'pct_exit', and if none holds the position stays open; no closed position
\* carries another exit_reason than these and 'eod_close'.
C3_ExitPriority ==
    /\ [](\A k \in 1..Len(closed_positions) :
            positions[closed_positions[k]].exit_reason \in ExitReasons)
    /\ [][ExitPriorityStep]_vars

\* C3 witness: a position was closed on a trading-window bar with 'stop_loss'
\* when it had also been held for max_holding_minutes
C3_Witness ==
    /\ pc = "bar_loop"
    /\ bars # <<>>
    /\ InTradingWindow(bars[Len(bars)])
    /\ closed_positions # <<>>
    /\ LET p == positions[closed_positions[Len(closed_positions)]]
       IN  /\ p.exit_time = bars[Len(bars)].timestamp
           /\ p.symbol = CurrentSymbol
           /\ p.exit_reason = "stop_loss"
           /\ p.exit_time - p.entry_time >= config.max_holding_minutes

\* the bar's time of day is at or after session_end minus close_before_end_minutes
InCloseWindow(bar) ==
    TimeOfDay(bar.timestamp) >= hhmm_to_minutes(config.session_end)
                                    - config.close_before_end_minutes

\* C4: for every bar at or after session_end minus close_before_end_minutes,
\* after the bar is processed the symbol has no open position, a position
\* closed on that bar has exit_reason 'eod_close' (also when its stop-loss or
\* max-hold condition holds on the bar), and no position is opened on the bar.
C4_SessionEndClose ==
    [][(BarStep /\ InCloseWindow(bars'[Len(bars')])) =>
            /\ CurrentSymbol \notin DOMAIN open_positions'
            /\ \A id \in DOMAIN positions' :
                    (Occurrences(closed_positions', id) > 0
                        /\ Occurrences(closed_positions, id) = 0)
                    => positions'[id].exit_reason = "eod_close"
            /\ DOMAIN positions' = DOMAIN positions
            /\ position_counter' = position_counter]_vars

\* C4 witness: a bar in the close window closed a position whose stop loss
\* the bar also hit, with 'eod_close'
C4_Witness ==
    /\ pc = "bar_loop"
    /\ bars # <<>>
    /\ InCloseWindow(bars[Len(bars)])
    /\ closed_positions # <<>>
    /\ LET p == positions[closed_positions[Len(closed_positions)]]
           bar == bars[Len(bars)]
       IN  /\ p.exit_time = bar.timestamp
           /\ p.symbol = CurrentSymbol
           /\ p.exit_reason = "eod_close"
           /\ IF p.direction = "LONG" THEN RLe(RI(bar.low), p.stop_loss)
              ELSE RLe(p.stop_loss, RI(bar.high))

\* the index (from 0, as enumerate gives it) of the current symbol's bar with
\* timestamp ts
BarIndexAt(ts) == (CHOOSE k \in 1..Len(bars) : bars[k].timestamp = ts) - 1

\* the positions of the current symbol, whose bars are in bars
CurrentPositions == {id \in DOMAIN positions : positions[id].symbol = CurrentSymbol}

\* C5: cooldown: after a position of a symbol is closed on the bar with index
\* k, no new position of that symbol is opened on a later bar with index j
\* such that j - k < cooldown_bars.
C5_Cooldown ==
    pc = "bar_loop" =>
        \A a, b \in CurrentPositions :
            (/\ Occurrences(closed_positions, a) > 0
             /\ BarIndexAt(positions[b].entry_time) > BarIndexAt(positions[a].exit_time))
            => BarIndexAt(positions[b].entry_time) - BarIndexAt(positions[a].exit_time)
                    >= config.cooldown_bars

\* C5: a position is opened one bar after the previous one of the symbol was
\* closed, under a cooldown of two bars
C5_ReentryInCooldown ==
    /\ pc = "bar_loop"
    /\ config.cooldown_bars = 2
    /\ \E a, b \in CurrentPositions :
        /\ Occurrences(closed_positions, a) > 0
        /\ BarIndexAt(positions[b].entry_time) = BarIndexAt(positions[a].exit_time) + 1

\* the bars of the current session: those of the calendar date of the last bar
SessionBars == SelectSeq(bars, LAMBDA b : DateOf(b.timestamp) = DateOf(bars[Len(bars)].timestamp))

\* a bar of the current symbol has just been processed
BarProcessed == call.op = "process_bar"

\* C6: the VWAP the orchestrator uses on a bar is the cumulative
\* (typical_price x volume) / cumulative volume over the bars of the current
\* session only, from the session's first bar through the current bar; bars of
\* earlier sessions of the symbol do not contribute.
C6_SessionVwap ==
    BarProcessed => state.current_vwap = calculate_vwap(SessionBars)

\* C6: a position is opened with an entry_vwap that is not the VWAP of its
\* session's bars
C6_EntryOnOtherVwap ==
    /\ BarProcessed
    /\ \E id \in CurrentPositions :
        /\ positions[id].entry_time = bars[Len(bars)].timestamp
        /\ positions[id].entry_vwap # calculate_vwap(SessionBars)

\* the last n elements of the list s (all of it when it is shorter)
LastN(s, n) == SubSeq(s, Max(1, Len(s) - n + 1), Len(s))

\* C7: on the first bar of a symbol and on every bar whose date differs from
\* the previous bar's the StrategyState is rebuilt before the indicators are
\* updated: after that bar deviation_history and volume_history each hold
\* exactly one element, the current bar's, and the rolling windows never hold
\* a deviation or volume sample of an earlier session.
C7_StateRebuilt ==
    BarProcessed =>
        LET bar == bars[Len(bars)]
            n == Len(SessionBars)
        IN  /\ n = 1 =>
                /\ state.deviation_history = <<RSub(RI(bar.close), state.current_vwap)>>
                /\ state.volume_history = <<bar.volume>>
            /\ Len(state.deviation_history) = Min(n, config.rolling_window)
            /\ state.volume_history =
                    LastN([k \in 1..n |-> SessionBars[k].volume], config.rolling_window)

\* C7 witness: the bar processed is the first of a later session of the
\* symbol, and the bar before it left more than one sample in the windows
C7_Witness ==
    /\ BarProcessed
    /\ Len(bars) >= 3
    /\ Len(SessionBars) = 1
    /\ DateOf(bars[Len(bars) - 1].timestamp) = DateOf(bars[Len(bars) - 2].timestamp)
    /\ Len(state.deviation_history) = 1

\* C8: check_daily_risk_limit(daily_pnl, initial_capital, limit_pct) returns
\* can_trade = False exactly when daily_pnl <= -(initial_capital x limit_pct /
\* 100), the boundary value included, and otherwise can_trade = True with
\* buffer = initial_capital x limit_pct / 100 + daily_pnl.
C8_DailyRiskLimit ==
    call.op = "check_daily_risk_limit" =>
        LET limit == RDiv(RMul(call.initial_capital, call.daily_loss_limit_pct), RI(100))
            reached == RLe(call.current_daily_pnl, RNeg(limit))
        IN  /\ call.result[1] = ~reached
            /\ ~reached => call.result[2] = RAdd(limit, call.current_daily_pnl)

\* C8: the call with daily_pnl exactly at minus the limit amount returns
\* can_trade = True
C8_BoundaryTrades ==
    /\ call.op = "check_daily_risk_limit"
    /\ call.initial_capital = RI(100000)
    /\ call.daily_loss_limit_pct = RI(3)
    /\ call.current_daily_pnl = RI(-3000)
    /\ call.result = <<TRUE, RI(0)>>

\* the volume filter of the entry filters applies and the bar's volume is
\* below the configured fraction of the average of the last volume_avg_window
\* volumes
VolumeTooLow(bar, st) ==
    /\ Len(st.volume_history) >= config.volume_avg_window
    /\ RLt(RI(bar.volume),
           RMul(R(SumInt(LastN(st.volume_history, config.volume_avg_window)),
                  config.volume_avg_window),
                RDiv(config.min_volume_pct_of_avg, RI(100))))

\* the entry filters pass: volume, minutes since the session start (when the
\* state carries one), warm-up bar count
EntryFiltersPass(bar, st) ==
    /\ ~VolumeTooLow(bar, st)
    /\ st.session_start # NoDay =>
            bar.timestamp - st.session_start >= config.skip_open_minutes
    /\ st.bar_idx >= config.min_vwap_bars

\* C9: generate_entry_signal returns exactly one of SHORT, LONG or none: SHORT
\* iff the entry filters pass, the symbol has no open position, the cooldown is
\* satisfied and the deviation measure is above the positive threshold; LONG
\* iff the same gates pass and the measure is below the negative threshold;
\* none otherwise, in particular when state.bar_idx is below the warm-up count
\* or the bar volume is below the configured fraction of the recent average.
C9_EntrySignal ==
    call.op = "generate_entry_signal" =>
        LET st == call.state
            gates == /\ EntryFiltersPass(call.bar, st)
                     /\ ~call.has_position
                     /\ st.bar_idx - st.last_exit_bar_idx >= config.cooldown_bars
            above == IF config.signal_type = "zscore"
                     THEN ZGt(call.z_score, config.entry_z)
                     ELSE RLt(config.entry_pct, call.pct_deviation)
            below == IF config.signal_type = "zscore"
                     THEN ZLt(call.z_score, RNeg(config.entry_z))
                     ELSE RLt(call.pct_deviation, RNeg(config.entry_pct))
        IN  /\ call.result \in {"SHORT", "LONG", "None"}
            /\ call.result = "SHORT" <=> (gates /\ above)
            /\ call.result = "LONG" <=> (gates /\ below)
            /\ st.bar_idx < config.min_vwap_bars => call.result = "None"
            /\ VolumeTooLow(call.bar, st) => call.result = "None"

\* C9 witness: the measure is beyond the threshold, the symbol is flat and the
\* cooldown is satisfied, and the call returns none because the bar is still
\* in the warm-up
C9_Witness ==
    /\ call.op = "generate_entry_signal"
    /\ config.signal_type = "pct"
    /\ RLt(config.entry_pct, call.pct_deviation)
    /\ ~call.has_position
    /\ call.state.bar_idx - call.state.last_exit_bar_idx >= config.cooldown_bars
    /\ ~VolumeTooLow(call.bar, call.state)
    /\ call.state.bar_idx < config.min_vwap_bars
    /\ call.result = "None"

\* close_position was just called on an open position without a slippage
\* argument, so that the manager derived the slippage from the bps model
SlippageDerived ==
    /\ call.op = "close_position"
    /\ ~call.raised
    /\ call.slippage = RNone
    /\ config.slippage_model = "bps"

\* C10: when PositionManager.close_position derives the slippage itself, the
\* slippage recorded on the position and subtracted from its P&L is one charge
\* per leg, entry_price x size x slippage_bps/10000 + exit_price x size x
\* slippage_bps/10000; the commission recorded is twice the per-trade
\* commission; realized_pnl = gross - commission - slippage, with gross =
\* (exit - entry) x size for LONG and (entry - exit) x size for SHORT.
C10_DerivedSlippage ==
    SlippageDerived =>
        LET p == positions[call.position]
            bps == RDiv(config.slippage_bps, RI(10000))
            per_leg(price) == RMul(RMul(price, RI(p.size)), bps)
            slippage == RAdd(per_leg(p.entry_price), per_leg(call.exit_price))
            per_trade == IF call.commission = RNone THEN config.commission_per_trade
                         ELSE call.commission
            commission == RMul(RI(2), per_trade)
            gross == IF p.direction = "LONG"
                     THEN RMul(RSub(call.exit_price, p.entry_price), RI(p.size))
                     ELSE RMul(RSub(p.entry_price, call.exit_price), RI(p.size))
        IN  /\ p.slippage = slippage
            /\ p.commission = commission
            /\ p.realized_pnl = RSub(RSub(gross, commission), slippage)
            /\ call.pnl = p.realized_pnl

\* C10: a position of 3 shares entered and closed at 100 under 100 bps, for
\* which one charge per leg is 3 + 3 = 6, is recorded with slippage 12
C10_SlippageTwice ==
    /\ SlippageDerived
    /\ config.slippage_bps = RI(100)
    /\ positions[call.position].size = 3
    /\ positions[call.position].entry_price = RI(100)
    /\ call.exit_price = RI(100)
    /\ positions[call.position].slippage = RI(12)

\* the sum of realized_pnl over closed_positions, as get_performance_summary
\* computes total_pnl
ClosedPnl == RSum([k \in 1..Len(closed_positions) |-> positions[closed_positions[k]].realized_pnl])

\* current_capital is initial_capital plus the realized P&L of the closed positions
LedgerInv == current_capital = RAdd(config.initial_capital, ClosedPnl)

\* a step leaves the realized_pnl of every closed position as it is, and the
\* realized_pnl of a position it closes is what it adds to current_capital
\* and to daily_pnl
LedgerStep ==
    /\ \A id \in DOMAIN positions :
            InList(closed_positions, id) =>
                positions'[id].realized_pnl = positions[id].realized_pnl
    /\ \A id \in DOMAIN positions' :
            (InList(closed_positions', id) /\ ~InList(closed_positions, id)) =>
                /\ current_capital' = RAdd(current_capital, positions'[id].realized_pnl)
                /\ daily_pnl' = RAdd(daily_pnl, positions'[id].realized_pnl)

RoundTripClose ==
    /\ call.op = "open_position"
    /\ call.position # NoPosition
    /\ call'.op = "close_position"
    /\ call'.position = call.position
    /\ call'.commission = RI(0)
    /\ call'.slippage = RI(0)
    /\ call'.exit_price = positions[call.position].entry_price

\* C12: round trip: for either direction, any size >= 1 and any price p,
\* opening a position at p and immediately closing it at p with commission 0
\* and slippage 0 yields realized_pnl = 0 and leaves current_capital and
\* daily_pnl at their values before the open.
C12_RoundTrip ==
    [][/\ call'.op = "open_position" =>
            (current_capital' = current_capital /\ daily_pnl' = daily_pnl)
       /\ RoundTripClose =>
            /\ call'.pnl = RI(0)
            /\ positions'[call.position].realized_pnl = RI(0)
            /\ current_capital' = current_capital
            /\ daily_pnl' = daily_pnl]_vars

\* C12 witness: a SHORT position opened at 104 under a configuration with a
\* commission and a slippage rate has been closed at 104 by the next call, with
\* commission 0 and slippage 0, and its realized_pnl is 0
C12_Witness ==
    /\ call.op = "close_position"
    /\ n_steps = 2
    /\ call.position = 0
    /\ ~call.raised
    /\ call.commission = RI(0)
    /\ call.slippage = RI(0)
    /\ call.before.direction = "SHORT"
    /\ call.before.entry_price = RI(104)
    /\ call.exit_price = RI(104)
    /\ config.commission_per_trade = RI(1)
    /\ config.slippage_bps = RI(100)
    /\ positions[0].realized_pnl = RI(0)
    /\ current_capital = config.initial_capital
    /\ daily_pnl = RI(0)

\* fill_market_order was just called under the bps slippage model
BpsFill == call.op = "fill_market_order" /\ config.slippage_model = "bps"

VolumeFill ==
    /\ call.op = "fill_market_order"
    /\ config.slippage_model = "volume"
    /\ call.bar.volume > 0

\* order.size / bar.volume x 100 of the call
Participation == RMul(R(call.order.size, call.bar.volume), RI(100))

\* the slippage applied by the call, in basis points of the base price
AppliedBps ==
    LET base == IF call.use_realistic_fills THEN RI(call.bar.close) ELSE RI(call.bar.open)
    IN  RMul(RDiv(RAbs(RSub(call.result.fill_price, base)), base), RI(10000))

\* C14: under the volume slippage model, when participation = order.size /
\* bar.volume x 100 exceeds volume_participation_limit_pct the slippage applied
\* is slippage_bps x (participation / limit); when it does not exceed the limit
\* the slippage applied is exactly slippage_bps.
C14_VolumeSlippage ==
    VolumeFill =>
        AppliedBps =
            IF RLt(config.volume_participation_limit_pct, Participation)
            THEN RMul(config.slippage_bps,
                      RDiv(Participation, config.volume_participation_limit_pct))
            ELSE config.slippage_bps

\* C14: an order of 1 on a bar of volume 5 (participation 20%, limit 10%) at
\* 100 bps, for which slippage_bps x participation / limit is 200 bps, is
\* filled with 300 bps of slippage
C14_ScaledByOnePlusRatio ==
    /\ VolumeFill
    /\ config.slippage_bps = RI(100)
    /\ config.volume_participation_limit_pct = RI(10)
    /\ call.order.size = 1
    /\ call.bar.volume = 5
    /\ call.order.direction = "LONG"
    /\ call.use_realistic_fills
    /\ AppliedBps = RI(300)
    /\ call.result.fill_price = R(10712, 100)

\* the call just made read a mode field of the configuration
ReadsStopType == call.op = "calculate_stop_loss"

ReadsSlippageModel == call.op = "fill_market_order"

\* generate_entry_signal reads signal_type once the filters, the position
\* check and the cooldown have let the call through; check_exit_signal once
\* the stop-loss, session-end and holding-time exits have not applied
ReadsSignalType ==
    \/ /\ call.op = "generate_entry_signal"
       /\ EntryFiltersPass(call.bar, call.state)
       /\ ~call.has_position
       /\ call.state.bar_idx - call.state.last_exit_bar_idx >= config.cooldown_bars
    \/ /\ call.op = "check_exit_signal"
       /\ ~is_stop_loss_hit(call.position, call.bar)
       /\ ~(call.session_end # NoDay
              /\ call.session_end - call.bar.timestamp <= config.close_before_end_minutes)
       /\ call.bar.timestamp - call.position.entry_time < config.max_holding_minutes

\* C15: an unknown mode value is never silently defaulted: with a stop_type
\* outside {atr, fixed}, a slippage_model outside {bps, volume} or a signal_type
\* outside {zscore, pct}, the function consuming it (calculate_stop_loss,
\* simulate_fill_price / fill_market_order, generate_entry_signal /
\* check_exit_signal) ends in an error and returns no stop, fill or signal.
C15_UnknownMode ==
    /\ (ReadsStopType /\ config.stop_type \notin {"atr", "fixed"}) => call.raised
    /\ (ReadsSlippageModel /\ config.slippage_model \notin {"bps", "volume"}) => call.raised
    /\ (ReadsSignalType /\ config.signal_type \notin {"zscore", "pct"}) => call.raised

\* C15: under signal_type 'momentum' generate_entry_signal returns SHORT for a
\* percentage deviation above entry_pct, as it does under 'pct'
C15_SignalDefaultsToPct ==
    /\ call.op = "generate_entry_signal"
    /\ config.signal_type = "momentum"
    /\ ~call.raised
    /\ call.result = "SHORT"
    /\ RLt(config.entry_pct, call.pct_deviation)

\* the step is a load_bars call that fails
LoadFailure == call'.op = "load_bars" /\ call'.path = "error"

\* C16: if loading the bars of a symbol fails, only that symbol is skipped: the
\* PositionManager state, the fill list and the equity curve are left as they
\* were before that symbol, and every later symbol of config.symbols is still
\* processed, in configured order.
C16_LoadFailureSkipsSymbol ==
    /\ [][LoadFailure =>
            /\ UNCHANGED pm_vars
            /\ UNCHANGED <<all_fills, equity_curve>>
            /\ pc' = "symbol_loop"
            /\ sym_idx' = sym_idx + 1]_vars
    /\ [][(pc = "symbol_loop" /\ pc' = "bar_loop") =>
            /\ sym_idx' = sym_idx
            /\ state'.symbol = config.symbols[sym_idx]
            /\ bars' = <<>>]_vars
    /\ [][sym_idx' \in {sym_idx, sym_idx + 1}]_vars
    /\ [][pc' = "done" => sym_idx > Len(config.symbols)]_vars

\* C16 witness: the bars of the first symbol failed to load (no bar of it was
\* processed) and a position of the second symbol has been opened on its bars
C16_Witness ==
    /\ pc = "bar_loop"
    /\ sym_idx = 2
    /\ n_steps = Len(bars)
    /\ call.op = "process_bar"
    /\ call.path = "entry"
    /\ \E id \in DOMAIN positions : positions[id].symbol = config.symbols[2]

\* floor of a rational
RFloor(a) == IF a[1] >= 0 THEN a[1] \div a[2] ELSE -(((-a[1]) + a[2] - 1) \div a[2])

\* one of the two position sizing functions was just called
SizingCall == call.op \in {"calculate_position_size", "PositionManager.calculate_position_size"}

\* |entry - stop| of a sizing call
RiskPerShare(entry_price, stop_loss) == RAbs(RSub(entry_price, stop_loss))

\* the size the sizing rule gives
ExpectedSize(entry_price, stop_loss, capital, max_risk_pct) ==
    LET distance == RiskPerShare(entry_price, stop_loss)
        risk_amount == RDiv(RMul(capital, max_risk_pct), RI(100))
        by_risk == RFloor(RDiv(risk_amount, distance))
        by_value == RFloor(RDiv(RMul(R(95, 100), capital), entry_price))
    IN  IF RLe(distance, RI(0)) THEN 0 ELSE Max(0, Min(by_risk, by_value))

\* the value and the bounds of the size a sizing call returned
SizeRule ==
    LET distance == RiskPerShare(call.entry_price, call.stop_loss)
    IN  /\ call.result = ExpectedSize(call.entry_price, call.stop_loss, call.capital,
                                      call.max_risk_pct)
        /\ call.result >= 0
        /\ RLe(distance, RI(0)) => call.result = 0
        /\ RLe(RMul(RI(call.result), call.entry_price), RMul(R(95, 100), call.capital))
        /\ RLe(RMul(RI(call.result), distance),
               RDiv(RMul(call.capital, call.max_risk_pct), RI(100)))

\* the size the function called gives for the call's arguments with the stop
\* at the given distance from the entry, on either side of it
SizesAt(distance) ==
    IF call.op = "calculate_position_size"
    THEN {calculate_position_size(call.entry_price, stop, call.direction, call.capital,
                                  call.max_risk_pct) :
            stop \in {RSub(call.entry_price, distance), RAdd(call.entry_price, distance)}}
    ELSE {pm_calculate_position_size([PM EXCEPT !.current_capital = call.capital], config,
                                     "AAA", call.entry_price, stop, call.direction) :
            stop \in {RSub(call.entry_price, distance), RAdd(call.entry_price, distance)}}

\* no stop distance wider than the call's gives a larger size than the call
\* returned; a call with stop = entry (distance 0) is looked at when from_zero
WiderNeverLarger(from_zero) ==
    LET distance == RiskPerShare(call.entry_price, call.stop_loss)
    IN  \A wider \in FnStopDistances :
            ((from_zero \/ RLt(RI(0), distance)) /\ RLt(distance, wider)) =>
                \A size \in SizesAt(wider) : size <= call.result

\* C17, as it holds: calculate_position_size returns 0 when |entry - stop| <= 0
\* and otherwise the minimum of floor(capital x max_risk_pct/100 / |entry -
\* stop|) and floor(0.95 x capital / entry), never below 0; hence size x entry
\* <= 0.95 x capital, size x |entry - stop| <= capital x max_risk_pct/100, and
\* with capital and risk percentage fixed a stop distance wider than a
\* positive stop distance never yields a larger size.
C17_PositionSize == SizingCall => (SizeRule /\ WiderNeverLarger(FALSE))

\* C17 witness: entry 104, stop 103.5, capital 1000, 1% risk: the risk alone
\* allows floor(10 / 0.5) = 20 shares, the 95% cap floor(950 / 104) = 9, and
\* the call returns 9
C17_Witness ==
    /\ call.op = "calculate_position_size"
    /\ call.entry_price = RI(104)
    /\ call.stop_loss = R(207, 2)
    /\ call.capital = RI(1000)
    /\ call.max_risk_pct = RI(1)
    /\ call.result = 9

\* C17, as stated: the same with a wider stop distance never yielding a
\* larger size from any stop distance, the distance 0 (stop = entry, size 0)
\* included.
C17_PositionSizeAsStated == SizingCall => (SizeRule /\ WiderNeverLarger(TRUE))

\* the realized P&L of the closed positions
ClosedPnls == [k \in 1..Len(closed_positions) |-> positions[closed_positions[k]].realized_pnl]

\* the sum of the profits and the absolute sum of the losses of the closed positions
GrossProfit == RSum(SelectSeq(ClosedPnls, LAMBDA x : RLt(RI(0), x)))

GrossLoss == RAbs(RSum(SelectSeq(ClosedPnls, LAMBDA x : RLt(x, RI(0)))))

\* C18: get_performance_summary reports profit_factor = gross_profit /
\* gross_loss when gross_loss > 0; when there are no losses it reports infinity
\* if gross_profit > 0 and 0 otherwise (in particular 0 when every closed trade
\* has realized_pnl = 0).
C18_ProfitFactor ==
    call.op = "get_performance_summary" =>
        call.result.profit_factor =
            IF RLt(RI(0), GrossLoss) THEN RDiv(GrossProfit, GrossLoss)
            ELSE IF RLt(RI(0), GrossProfit) THEN RInf
            ELSE RI(0)

\* C18: the summary of a manager whose only closed trade has realized_pnl = 0
\* reports an infinite profit factor
C18_InfiniteWithoutProfit ==
    /\ call.op = "get_performance_summary"
    /\ Len(closed_positions) = 1
    /\ positions[closed_positions[1]].realized_pnl = RI(0)
    /\ call.result.gross_profit = RI(0)
    /\ call.result.gross_loss = RI(0)
    /\ call.result.profit_factor = RInf

\* the exit_time values along closed_positions
ExitTimes == [k \in 1..Len(closed_positions) |-> positions[closed_positions[k]].exit_time]

\* C19: closed_positions is append-only and chronological: in every state of a
\* run, also a run over two or more symbols, the exit_time values along
\* closed_positions are non-decreasing, and a position once appended is never
\* removed or reordered.
C19_ClosedChronological ==
    /\ [](\A k \in 1..(Len(closed_positions) - 1) : ExitTimes[k] <= ExitTimes[k + 1])
    /\ [][/\ Len(closed_positions') >= Len(closed_positions)
          /\ SubSeq(closed_positions', 1, Len(closed_positions)) = closed_positions]_vars

\* C19: a position of the second symbol is appended to closed_positions with
\* an exit_time earlier than that of the first symbol's position before it
C19_LaterSymbolClosesEarlier ==
    /\ Len(closed_positions) = 2
    /\ positions[closed_positions[1]].symbol = config.symbols[1]
    /\ positions[closed_positions[2]].symbol = config.symbols[2]
    /\ ExitTimes[2] < ExitTimes[1]

\* the bar is skipped by the pre-open time filter
SkippedByOpenFilter(bar) ==
    TimeOfDay(bar.timestamp) < hhmm_to_minutes(config.session_start)
                                    + config.skip_open_minutes

\* the set of position ids listed in open_positions, in the next state
OpenIdsAfter ==
    {id \in DOMAIN positions' :
        \E s \in DOMAIN open_positions' : InList(open_positions'[s], id)}

\* the step processes a bar that the pre-open filter does not skip and the
\* run goes on: it appends one snapshot, with the bar's timestamp, the cash
\* and the equity (cash plus unrealized P&L at the bar's close) after the bar
SnapshotStep ==
    (BarStep /\ pc' = "bar_loop" /\ ~SkippedByOpenFilter(bars'[Len(bars')])) =>
        /\ Len(equity_curve') = Len(equity_curve) + 1
        /\ SubSeq(equity_curve', 1, Len(equity_curve)) = equity_curve
        /\ equity_curve'[Len(equity_curve')].timestamp = bars'[Len(bars')].timestamp
        /\ equity_curve'[Len(equity_curve')].cash = current_capital'
        /\ OpenIdsAfter = {} => equity_curve'[Len(equity_curve')].equity = current_capital'

\* C20: for every bar that is not skipped by the pre-open time filter, one
\* equity snapshot with that bar's timestamp is appended to the equity curve,
\* including bars on which a position is closed (by stop_loss, max_hold_time,
\* strategy exit or eod_close), bars on which an entry is rejected and bars
\* blocked by the daily loss limit; so after the last bar of a run that ends
\* with no open position the last snapshot's cash and equity equal the final
\* current_capital.
C20_EquitySnapshot ==
    /\ [][SnapshotStep]_vars
    /\ []((pc = "done" /\ DOMAIN open_positions = {} /\ equity_curve # <<>>) =>
            /\ equity_curve[Len(equity_curve)].cash = current_capital
            /\ equity_curve[Len(equity_curve)].equity = current_capital)

\* C20: the run is over with no open position, its last position closed by a
\* stop loss at a loss, and the last snapshot of the equity curve is from
\* before that bar and shows another cash and equity than the final capital
C20_CloseWithoutSnapshot ==
    /\ pc = "done"
    /\ DOMAIN open_positions = {}
    /\ closed_positions # <<>>
    /\ equity_curve # <<>>
    /\ LET p == positions[closed_positions[Len(closed_positions)]]
           last == equity_curve[Len(equity_curve)]
       IN  /\ p.exit_reason = "stop_loss"
           /\ last.timestamp < p.exit_time
           /\ last.cash # current_capital
           /\ last.equity # current_capital

\* ---- C21 ----
DrawdownCall == call.op = "calculate_max_drawdown" /\ Len(call.equity_curve) >= 2

\* max(e[0..i]), i counted from 0
PeakUpTo(e, i) == CHOOSE m \in {e[k] : k \in 1..(i + 1)} : \A k \in 1..(i + 1) : e[k] <= m

\* (max(e[0..i]) - e[i]) / max(e[0..i]) x 100
DeclineAt(e, i) == RMul(R(PeakUpTo(e, i) - e[i + 1], PeakUpTo(e, i)), RI(100))

\* the result is the greatest decline from the running peak, with a trough
\* that attains it and the peak that precedes the trough
DrawdownRule ==
    LET e == call.equity_curve
        r == call.result
    IN  /\ \A i \in 0..(Len(e) - 1) : RLe(DeclineAt(e, i), r.max_dd)
        /\ r.trough_idx \in 0..(Len(e) - 1)
        /\ DeclineAt(e, r.trough_idx) = r.max_dd
        /\ r.peak_idx \in 0..r.trough_idx
        /\ e[r.peak_idx + 1] = PeakUpTo(e, r.trough_idx)

\* a percentage as printed with two decimals, in hundredths (half rounds up;
\* no value here lies on a half)
Hundredths(r) == RFloor(RAdd(RMul(r, RI(100)), R(1, 2)))

\* the drawdown of the sample curve: percentage as printed, peak and trough values
SampleDrawdown(pct_hundredths, peak_value, trough_value) ==
    call.equity_curve = FnSampleCurve =>
        /\ Hundredths(call.result.max_dd) = pct_hundredths
        /\ call.equity_curve[call.result.peak_idx + 1] = peak_value
        /\ call.equity_curve[call.result.trough_idx + 1] = trough_value

\* C21 (amended): on a series of length >= 2 calculate_max_drawdown returns the
\* greatest percentage decline from the running peak, a trough index attaining
\* it and a peak index <= trough with e[peak] = max(e[0..trough]); for the
\* sample curve that is 0.98%, from peak 102000 to trough 101000.
C21_MaxDrawdown == DrawdownCall => (DrawdownRule /\ SampleDrawdown(98, 102000, 101000))

\* the sample curve has been evaluated: trough at index 4, peak at index 3
C21_Witness ==
    /\ DrawdownCall
    /\ call.equity_curve = FnSampleCurve
    /\ call.result.peak_idx = 3
    /\ call.result.trough_idx = 4

\* C21 as stated: the same rule, and for the sample curve a drawdown of 0.49%
\* from peak 101000 to trough 100500.
C21_MaxDrawdownAsStated == DrawdownCall => (DrawdownRule /\ SampleDrawdown(49, 101000, 100500))

\* ---- C22 ----
\* a positive ratio
RPositive(a) == a[1] > 0 /\ a[2] > 0

\* the square of the floor 0.0001 that update_strategy_state puts under the
\* rolling standard deviation
StdFloorSq == <<1, 100000000>>

\* C22: in every state of the StrategyState the orchestrator carries, after
\* init_strategy_state and after every update_strategy_state, across session
\* resets, rolling_std_deviation is strictly positive, so calculate_z_score
\* never takes its zero-std branch.
C22_StdPositive ==
    /\ RPositive(state.rolling_std_sq)
    /\ calculate_z_score(RI(1), RI(0), RI(0), state.rolling_std_sq) # ZOf(RI(0))

\* two or more equal deviations have been seen: their standard deviation is
\* 0 and the state holds the floor
C22_Witness ==
    /\ call.op = "process_bar"
    /\ Len(state.deviation_history) >= 2
    /\ np_std_sq(state.deviation_history) = RI(0)
    /\ state.rolling_std_sq = StdFloorSq

\* ---- C23 ----
UpdatesCall == call.op = "update_strategy_state"

\* the deviation and volume samples of the bars handed in, in arrival order
DeviationSamples == [k \in 1..Len(call.bars) |-> RSub(RI(call.bars[k].close), call.vwap)]

VolumeSamples == [k \in 1..Len(call.bars) |-> call.bars[k].volume]

\* C23: after n calls of update_strategy_state on a fresh state,
\* deviation_history and volume_history are at most rolling_window long and
\* hold, in arrival order, exactly the last min(n, rolling_window) samples.
C23_FifoWindows ==
    UpdatesCall =>
        LET st == call.result
            n == Len(call.bars)
        IN  /\ Len(st.deviation_history) <= config.rolling_window
            /\ Len(st.volume_history) <= config.rolling_window
            /\ Len(st.deviation_history) = Min(n, config.rolling_window)
            /\ st.deviation_history = LastN(DeviationSamples, config.rolling_window)
            /\ st.volume_history = LastN(VolumeSamples, config.rolling_window)

\* more bars than the window holds, the oldest sample differing from those
\* kept: it has been evicted
C23_Witness ==
    /\ UpdatesCall
    /\ Len(call.bars) > config.rolling_window
    /\ \A k \in 1..Len(call.result.volume_history) :
            call.result.volume_history[k] # call.bars[1].volume
    /\ call.result.volume_history[Len(call.result.volume_history)]
            = call.bars[Len(call.bars)].volume

\* ---- C24 ----
VwapCall == call.op = "update_vwap"

\* C24: for every bar sequence with non-negative volumes and every prefix of
\* it, prefixes of zero cumulative volume included, update_vwap folded from
\* (0, 0) gives the VWAP calculate_vwap gives on the prefix, and the
\* cumulative volume never decreases.
C24_IncrementalVwap ==
    VwapCall =>
        /\ \A k \in 1..Len(call.bars) : call.result[k][3] = call.recomputed[k]
        /\ \A k \in 2..Len(call.bars) : call.result[k - 1][2] <= call.result[k][2]

\* C24: on a prefix without volume whose last bar's typical price is not its
\* close, update_vwap returns the typical price and calculate_vwap the close
C24_ZeroVolumePrefixDiffers ==
    /\ VwapCall
    /\ \E k \in 1..Len(call.bars) :
        /\ call.result[k][2] = 0
        /\ call.result[k][3] = typical_price(call.bars[k])
        /\ call.recomputed[k] = RI(call.bars[k].close)
        /\ call.result[k][3] # call.recomputed[k]

\* ---- C25 ----
\* the position is closed
IsClosed(id) == InList(closed_positions, id)

ValidatedAtrConfig == config.stop_type = "atr" /\ config.stop_atr_window \in 5..50

\* the bar just processed gave an entry signal and calculate_stop_loss raised
StopLossRaised == call.op = "process_bar" /\ call.path = "error"

\* C26: under stop_type 'atr' and a validated stop_atr_window, an ATR value is
\* there whenever the orchestrator obtains an entry signal: calculate_stop_loss
\* never raises for a missing ATR and no run is aborted for it.
C26_AtrAvailable == ValidatedAtrConfig => (~StopLossRaised /\ pc # "aborted")

\* C26: an entry signal on a bar with index below stop_atr_window, past the
\* warm-up: atr is None, calculate_stop_loss raises and the run is aborted
C26_SignalBeforeAtr ==
    /\ ValidatedAtrConfig
    /\ StopLossRaised
    /\ pc = "aborted"
    /\ Len(bars) - 1 < config.stop_atr_window
    /\ Len(bars) - 1 >= config.min_vwap_bars
    /\ bar_atr(bars, Len(bars) - 1, config) = RNone

\* ---- C27 ----
\* the number of bars of the current symbol's file that belong to the session
\* of the bar at ts and come before it
SessionIndexAt(ts) ==
    Cardinality({k \in 1..Len(bars) : /\ DateOf(bars[k].timestamp) = DateOf(ts)
                                      /\ bars[k].timestamp < ts})

\* C27: the warm-up counts bars from the start of the current session: in
\* every session of a symbol no position is opened on any of its first
\* min_vwap_bars bars, and the bar index in StrategyState is the number of bars
\* of the current session processed before the current bar.
C27_SessionWarmup ==
    BarProcessed =>
        /\ state.bar_idx = SessionIndexAt(bars[Len(bars)].timestamp)
        /\ \A id \in CurrentPositions :
                SessionIndexAt(positions[id].entry_time) >= config.min_vwap_bars

\* C27: in a later session of the symbol a position is opened on the second
\* bar of the session under a warm-up of two bars, the state's bar index
\* being the bar's index in the file
C27_EntryInSessionWarmup ==
    /\ BarProcessed
    /\ call.path = "entry"
    /\ config.min_vwap_bars = 2
    /\ SessionIndexAt(bars[Len(bars)].timestamp) = 1
    /\ state.bar_idx = Len(bars) - 1
    /\ state.bar_idx >= config.min_vwap_bars
    /\ \E id \in CurrentPositions : positions[id].entry_time = bars[Len(bars)].timestamp

\* ---- C28 ----
\* the sum of realized_pnl of the closed positions whose exit date is date
RealizedOn(date) ==
    LET closed_that_day ==
            SelectSeq(closed_positions,
                      LAMBDA id : DateOf(positions[id].exit_time) = date)
    IN  RSum([k \in 1..Len(closed_that_day) |-> positions[closed_that_day[k]].realized_pnl])

\* the realized loss of the date is beyond the daily loss limit
LimitBreachedOn(date) ==
    ~check_daily_risk_limit(RealizedOn(date), config.initial_capital,
                            config.daily_loss_limit_pct)[1]

\* after every bar daily_pnl is what was realized on the bar's date
DailyPnlInv ==
    BarProcessed => daily_pnl = RealizedOn(DateOf(bars[Len(bars)].timestamp))

\* a bar of a date whose limit is already breached opens no position
NoEntryAfterBreach ==
    (call'.op = "process_bar" /\ n_steps' = n_steps + 1
        /\ LimitBreachedOn(DateOf(bars'[Len(bars')].timestamp)))
    => position_counter' = position_counter

\* C28: at every point of a run daily_pnl is the sum of realized_pnl of all
\* closed positions whose exit date is the current bar's date, positions of
\* symbols processed earlier included; once the daily loss limit is breached
\* on a date no position is opened on any later bar of that date.
C28_DailyPnl == [](DailyPnlInv) /\ [][NoEntryAfterBreach]_vars

\* C28: a position of a later symbol is opened on a date on which the
\* positions closed earlier in the run lost more than the limit, daily_pnl
\* having been reset to 0 in between
C28_EntryAfterBreachOfDay ==
    /\ BarProcessed
    /\ call.path = "entry"
    /\ sym_idx = 2
    /\ \E id \in DOMAIN positions :
        /\ IsClosed(id)
        /\ positions[id].symbol = config.symbols[1]
        /\ DateOf(positions[id].exit_time) = DateOf(bars[Len(bars)].timestamp)
    /\ LimitBreachedOn(DateOf(bars[Len(bars)].timestamp))
    /\ daily_pnl = RI(0)

\* ---- C29 ----
\* the fill is the entry or the exit of a position
FillOfPosition(fill) ==
    \E id \in DOMAIN positions :
        /\ positions[id].symbol = fill.order.symbol
        /\ positions[id].size = fill.fill_size
        /\ \/ positions[id].entry_time = fill.fill_time
           \/ IsClosed(id) /\ positions[id].exit_time = fill.fill_time

\* C29: every Fill recorded in a run belongs to a position that was opened
\* or closed: the number of fills is the number of positions opened plus the
\* number closed, and no fill is recorded for an entry the PositionManager
\* refuses (size 0, or open_position returning none).
C29_FillsMatchPositions ==
    /\ Len(all_fills) = position_counter + Len(closed_positions)
    /\ \A k \in 1..Len(all_fills) : FillOfPosition(all_fills[k])

\* C29: the computed size is 0, the entry order is filled and recorded, and
\* open_position returns none: a fill of size 0 without a position
C29_FillWithoutPosition ==
    /\ BarProcessed
    /\ call.path = "entry_refused"
    /\ all_fills # <<>>
    /\ all_fills[Len(all_fills)].fill_size = 0
    /\ all_fills[Len(all_fills)].fill_time = bars[Len(bars)].timestamp
    /\ position_counter = 0
    /\ ~FillOfPosition(all_fills[Len(all_fills)])

\* ---- C30 ----
\* the bar just processed reached TRACK EQUITY
SnapshotTaken ==
    BarProcessed /\ call.path \in {"hold", "no_signal", "entry", "entry_refused"}

\* the open positions, over all symbols
OpenIds == {id \in DOMAIN positions : OpenOccurrences(id) > 0}

\* the last close of the position's own symbol: the current bar's for the
\* symbol being processed, the last bar's for a symbol processed earlier
OwnClose(id) ==
    IF positions[id].symbol = CurrentSymbol THEN bars[Len(bars)].close
    ELSE last_close[positions[id].symbol]

\* the unrealized P&L of the positions ids, each at the close of its own symbol
RECURSIVE UnrealizedAtOwnClose(_)
UnrealizedAtOwnClose(ids) ==
    IF ids = {} THEN RI(0)
    ELSE LET id == CHOOSE x \in ids : TRUE
         IN  RAdd(unrealized_pnl(positions[id], RI(OwnClose(id))),
                  UnrealizedAtOwnClose(ids \ {id}))

\* C30: in every equity snapshot equity = current_capital + the unrealized
\* P&L of all open positions of all symbols, each valued at a price of its own
\* symbol, and cash = current_capital; an open position of a symbol processed
\* earlier is not valued at the close of the symbol being processed; with no
\* open position equity = cash.
C30_EquityAtOwnPrices ==
    SnapshotTaken =>
        LET snapshot == equity_curve[Len(equity_curve)]
        IN  /\ snapshot.cash = current_capital
            /\ snapshot.equity = RAdd(current_capital, UnrealizedAtOwnClose(OpenIds))
            /\ OpenIds = {} => snapshot.equity = snapshot.cash

\* C30: a position of the first symbol is still open while the second symbol
\* is processed, and the snapshot values it at the second symbol's close,
\* which is not the first symbol's last close
C30_ValuedAtOtherSymbolsClose ==
    /\ SnapshotTaken
    /\ sym_idx = 2
    /\ \E id \in OpenIds :
        /\ positions[id].symbol = config.symbols[1]
        /\ OwnClose(id) # bars[Len(bars)].close
    /\ LET snapshot == equity_curve[Len(equity_curve)]
       IN  /\ snapshot.equity = RAdd(current_capital,
                                     sum_unrealized(PM, OpenIds, RI(bars[Len(bars)].close)))
           /\ snapshot.equity # RAdd(current_capital, UnrealizedAtOwnClose(OpenIds))

====
